---- MODULE Spec2Model ----
(***************************************************************************)
(* Model of the routing and delegation engine of the multi-agent tutor:    *)
(* TutorAgent.process_task (app/agents/tutor_agent.py) and the specialist  *)
(* process_task of MathAgent / PhysicsAgent.  The LLM and the tools are    *)
(* external: every call to them is a nondeterministic choice over the      *)
(* outcomes the client library can produce.                                *)
(* Also modelled: POST /ask_direct/{agent_type} of app/main.py              *)
(* (DirectSpec), the SessionManager of app/utils/session_manager.py called *)
(* method by method (SessionSpec), and its add_interaction run by several  *)
(* threads statement by statement (ThreadSpec).                            *)
(* CatalogSpec is Spec over specialists built with or without their tools. *)
(* ReaderSpec runs get_context and cleanup_expired_sessions by threads.    *)
(*                                                                         *)
(* Python strings are TLA+ strings; confidences are percentages (0.9 is    *)
(* 90); time is a logical clock that advances on every LLM call.           *)
(***************************************************************************)
EXTENDS Integers, Sequences, FiniteSets, TLC

\* ------------------------------------------------------------------ bounds
\* largest number of content parts in one LLM response
MaxParts == 2

\* Python's None, and a dictionary key that is absent
None == "<None>"

\* ------------------------------------------------------- string functions
UpperChars == "ABCDEFGHIJKLMNOPQRSTUVWXYZ"
LowerChars == "abcdefghijklmnopqrstuvwxyz"

CharAt(s, i) == SubSeq(s, i, i)

LowerChar(c) ==
    IF \E i \in 1..Len(UpperChars) : CharAt(UpperChars, i) = c
    THEN CharAt(LowerChars, CHOOSE i \in 1..Len(UpperChars) : CharAt(UpperChars, i) = c)
    ELSE c

RECURSIVE lower(_)
\* str.lower()
lower(s) == IF Len(s) = 0 THEN "" ELSE LowerChar(CharAt(s, 1)) \o lower(SubSeq(s, 2, Len(s)))

\* Python's  `word in s`  on two strings: substring containment
Contains(word, s) ==
    \E i \in 1..(Len(s) - Len(word) + 1) : SubSeq(s, i, i + Len(word) - 1) = word

\* any(word in s for word in words)
AnyWordIn(words, s) == \E i \in 1..Len(words) : Contains(words[i], s)

\* ------------------------------------------------------------ data model
\* TaskRequest values a caller submits (base_agent.TaskRequest).  The last
\* query contains "=" and "x" but no routing keyword.
Queries == { "solve 2x+5=15",
             "what is voltage across this resistor",
             "tell me about Napoleon",
             "Calculate the FORCE",
             "x-3=7" }

\* a query text the routing LLM may put in its function-call arguments
RewrittenQuery == "find x"

Tasks == { [query |-> q, context |-> None, user_id |-> None, session_id |-> None] : q \in Queries }
   \cup  { [query |-> "solve 2x+5=15", context |-> "prior turns",
            user_id |-> "u1", session_id |-> "s1"] }

NoTask == [query |-> "", context |-> None, user_id |-> None, session_id |-> None]

\* str(e) of the exception an LLM call raises
LLMError == "LLM unavailable"
\* texts a successful LLM call may return in response.text
LLMTexts == { "alpha", "beta" }
\* outcome of a plain generate_content(prompt) call followed by response.text:
\* either of them raises (ok = FALSE) or a text is returned
PlainOutcomes == { [ok |-> FALSE, text |-> ""] } \cup { [ok |-> TRUE, text |-> t] : t \in LLMTexts }

\* a content part of an LLM response: free text, or a function call; an
\* unset function_call is the empty message, which is falsy
NoArgs == [query |-> None, reasoning |-> None]
NoFunctionCall == [name |-> "", args |-> NoArgs]
\* hasattr(part, 'function_call') and part.function_call
HasFunctionCall(part) == part.function_call.name # ""
\* hasattr(part, 'text') and part.text
HasText(part) == part.text # ""
TextPart(t) == [text |-> t, function_call |-> NoFunctionCall]
FunctionCallPart(n, a) == [text |-> "", function_call |-> [name |-> n, args |-> a]]

\* all sequences over S of length at most n
SeqUpTo(S, n) == UNION { [1..k -> S] : k \in 0..n }

\* ------------------------------------------------ AgentResponse (base_agent)
AgentResponse(c, conf, src, t, md) ==
    [content |-> c, confidence |-> conf, sources |-> src,
     execution_time_ms |-> t, metadata |-> md]

NoResponse == AgentResponse("", 0, <<>>, 0, [none |-> TRUE])

\* (time.time() - start_time) * 1000
ElapsedMs(now, start) == (now - start) * 1000

\* ------------------------------------------------ routing_functions.py
\* names of the three function declarations offered to the routing LLM
RoutingFunctionNames == <<"route_to_math_agent", "route_to_physics_agent", "handle_general_query">>

\* function names the routing LLM may answer with; the last is not declared
RoutingAnswerNames == { RoutingFunctionNames[i] : i \in 1..Len(RoutingFunctionNames) }
                         \cup { "route_to_history_agent" }

\* the args of a routing function call: each key may be missing
RoutingArgs(task) ==
    { [query |-> q, reasoning |-> r] :
         q \in {None, RewrittenQuery}, r \in {None, "LLM reasoning"} }

RoutingParts(task) ==
    { TextPart("I think this is a math question") }
      \cup { FunctionCallPart(n, a) : n \in RoutingAnswerNames, a \in RoutingArgs(task) }

\* what routing_model.generate_content(prompt, tools=...) can produce:
\* an exception, a response without candidates, or one candidate whose
\* content has 0..MaxParts parts
RoutingResponses(task) ==
    { [raises |-> TRUE, candidates |-> <<>>] }
      \cup { [raises |-> FALSE, candidates |-> <<>>] }
      \cup { [raises |-> FALSE, candidates |-> <<p>>] : p \in SeqUpTo(RoutingParts(task), MaxParts) }

\* dict.get(key, default)
Get(args, key, default) == IF args[key] = None THEN default ELSE args[key]

MathKeywords == <<"solve", "calculate", "equation", "math", "formula">>
PhysicsKeywords == <<"force", "energy", "physics", "voltage", "current">>

Delegate(key, name, reasoning, query) ==
    [action |-> "delegate", agent_key |-> key, agent_name |-> name,
     reasoning |-> reasoning, query |-> query]

\* the handle_directly dictionaries have no agent_key / agent_name
HandleDirectly(reasoning, query) ==
    [action |-> "handle_directly", agent_key |-> None, agent_name |-> None,
     reasoning |-> reasoning, query |-> query]

NoDecision == [action |-> "", agent_key |-> None, agent_name |-> None,
               reasoning |-> "", query |-> ""]

\* the return statements reading the arguments without a default
DecisionOfCall_RawArgs(task, fc) ==
    CASE fc.name = "route_to_math_agent" ->
            Delegate("math", "Math Tutor", fc.args.reasoning, fc.args.query)
      [] fc.name = "route_to_physics_agent" ->
            Delegate("physics", "Physics Tutor", fc.args.reasoning, fc.args.query)
      [] fc.name = "handle_general_query" ->
            HandleDirectly(fc.args.reasoning, fc.args.query)

\* the return statement taken for one function-call part
DecisionOfCall(task, fc) ==
    CASE fc.name = "route_to_math_agent" ->
            Delegate("math", "Math Tutor",
                     Get(fc.args, "reasoning", "Math-related query"),
                     Get(fc.args, "query", task.query))
      [] fc.name = "route_to_physics_agent" ->
            Delegate("physics", "Physics Tutor",
                     Get(fc.args, "reasoning", "Physics-related query"),
                     Get(fc.args, "query", task.query))
      [] fc.name = "handle_general_query" ->
            HandleDirectly(Get(fc.args, "reasoning", "General knowledge query"),
                           Get(fc.args, "query", task.query))

\* the except branch with the two keyword tests in the other order
FallbackRouting_PhysicsFirst(task, err) ==
    LET query_lower == lower(task.query) IN
    IF AnyWordIn(PhysicsKeywords, query_lower)
    THEN Delegate("physics", "Physics Tutor",
                  "Fallback routing - detected physics keywords. Error: " \o err, task.query)
    ELSE IF AnyWordIn(MathKeywords, query_lower)
    THEN Delegate("math", "Math Tutor",
                  "Fallback routing - detected math keywords. Error: " \o err, task.query)
    ELSE HandleDirectly("Fallback routing - no specialty detected. Error: " \o err, task.query)

\* the except branch of _make_routing_decision
FallbackRouting(task, err) ==
    LET query_lower == lower(task.query) IN
    IF AnyWordIn(MathKeywords, query_lower)
    THEN Delegate("math", "Math Tutor",
                  "Fallback routing - detected math keywords. Error: " \o err, task.query)
    ELSE IF AnyWordIn(PhysicsKeywords, query_lower)
    THEN Delegate("physics", "Physics Tutor",
                  "Fallback routing - detected physics keywords. Error: " \o err, task.query)
    ELSE HandleDirectly("Fallback routing - no specialty detected. Error: " \o err, task.query)

\* the parts of the loop that reach a return statement: parts with a
\* function call whose name is one of the three branches
ReturningParts(parts) ==
    { i \in 1..Len(parts) :
        /\ HasFunctionCall(parts[i])
        /\ parts[i].function_call.name \in
              {"route_to_math_agent", "route_to_physics_agent", "handle_general_query"} }

Min(S) == CHOOSE x \in S : \A y \in S : x <= y

\* _make_routing_decision with the keyword scan applied to a response
\* without a function call as well
_make_routing_decision_KeywordScan(task, response) ==
    IF response.raises
    THEN FallbackRouting(task, LLMError)
    ELSE IF /\ response.candidates # <<>>
            /\ response.candidates[1] # <<>>
            /\ ReturningParts(response.candidates[1]) # {}
         THEN LET parts == response.candidates[1]
              IN  DecisionOfCall(task, parts[Min(ReturningParts(parts))].function_call)
         ELSE FallbackRouting(task, "no function call")

\* TutorAgent._make_routing_decision, given what the routing LLM call did
_make_routing_decision(task, response) ==
    IF response.raises
    THEN FallbackRouting(task, LLMError)
    ELSE IF /\ response.candidates # <<>>
            /\ response.candidates[1] # <<>>
            /\ ReturningParts(response.candidates[1]) # {}
         THEN LET parts == response.candidates[1]
              IN  DecisionOfCall(task, parts[Min(ReturningParts(parts))].function_call)
         ELSE HandleDirectly("No clear specialization needed - handling as general query",
                             task.query)

\* ------------------------------------------------------------ specialists
AgentKeys == {"math", "physics"}

\* BaseAgent.name of each specialist
AgentName == [math |-> "Math Tutor", physics |-> "Physics Tutor"]
\* the label the specialist writes into sources and metadata
AgentLabel == [math |-> "Math Agent", physics |-> "Physics Agent"]

\* confidence constants, as percentages
MathConfidence == 90
PhysicsConfidence == 85
FallbackConfidence == 70
ErrorConfidence == 10
GeneralConfidence == 70

SuccessConfidence == [math |-> MathConfidence, physics |-> PhysicsConfidence]

\* self.tools after __init__: the names of the tools added, in order
ConstructedTools == [math    |-> <<"calculator", "equation_solver", "formula_lookup">>,
                     physics |-> <<"calculator", "formula_lookup">>]

\* BaseAgent.get_available_tools
get_available_tools(tl) == tl

ToolNameSet(tl) == { tl[i] : i \in 1..Len(tl) }

\* the argument mapping the LLM puts in a tool invocation request
ToolArgs == [input |-> "2x+5"]
\* the value / error text a tool reports
ToolResultValue == "5"
ToolErrorText == "missing required field"

\* what tool.execute(**kwargs) can do: return success, return failure, raise
ToolOutcomes == {"success", "failure", "raise"}

\* tool names the LLM may ask for: calculator is registered on both
\* specialists, unit_converter on none
RequestedToolNames == {"calculator", "unit_converter"}

SpecialistParts ==
    { TextPart("Let me work this out") }
      \cup { FunctionCallPart(n, ToolArgs) : n \in RequestedToolNames }

\* what model.generate_content(full_prompt[, tools=tools_config]) can produce
ToolResponses ==
    { [raises |-> TRUE, candidates |-> <<>>] }
      \cup { [raises |-> FALSE, candidates |-> <<>>] }
      \cup { [raises |-> FALSE, candidates |-> <<p>>] : p \in SeqUpTo(SpecialistParts, MaxParts) }

\* positions of the parts that carry a function call
CallPositions(response) ==
    IF response.candidates = <<>> THEN {}
    ELSE { i \in 1..Len(response.candidates[1]) : HasFunctionCall(response.candidates[1][i]) }

\* response.text of the client library: raises unless the first candidate
\* consists of text parts only
ResponseText(response) ==
    IF /\ ~response.raises
       /\ response.candidates # <<>>
       /\ response.candidates[1] # <<>>
       /\ CallPositions(response) = {}
    THEN [ok |-> TRUE, text |-> response.candidates[1][1].text]
    ELSE [ok |-> FALSE, text |-> ""]

\* an execute_tool that answers for tools it does not have
execute_tool_UnknownSucceeds(tl, tool_name, outcome) ==
    IF tool_name \in ToolNameSet(tl)
    THEN CASE outcome = "success" ->
                [raised |-> FALSE, exception |-> "", success |-> TRUE,
                 result |-> ToolResultValue, error |-> ""]
           [] outcome = "failure" ->
                [raised |-> FALSE, exception |-> "", success |-> FALSE,
                 result |-> "", error |-> ToolErrorText]
           [] outcome = "raise" ->
                [raised |-> TRUE, exception |-> "unexpected keyword argument",
                 success |-> FALSE, result |-> "", error |-> ""]
    ELSE [raised |-> FALSE, exception |-> "", success |-> TRUE,
          result |-> ToolResultValue, error |-> ""]

\* BaseAgent.execute_tool: a registered tool runs (outcome says what it
\* does), an unregistered name raises ValueError
execute_tool(tl, tool_name, outcome) ==
    IF tool_name \in ToolNameSet(tl)
    THEN CASE outcome = "success" ->
                [raised |-> FALSE, exception |-> "", success |-> TRUE,
                 result |-> ToolResultValue, error |-> ""]
           [] outcome = "failure" ->
                [raised |-> FALSE, exception |-> "", success |-> FALSE,
                 result |-> "", error |-> ToolErrorText]
           [] outcome = "raise" ->
                [raised |-> TRUE, exception |-> "unexpected keyword argument",
                 success |-> FALSE, result |-> "", error |-> ""]
    ELSE [raised |-> TRUE, exception |-> "Tool '" \o tool_name \o "' not found",
          success |-> FALSE, result |-> "", error |-> ""]

NoParts == [response_parts |-> <<>>, function_calls_made |-> <<>>]

\* a loop iteration that leaves no trace of a tool call that raised
PartStep_DropsRaised(tl, acc, part, outcome) ==
    IF HasText(part)
    THEN [acc EXCEPT !.response_parts = Append(@, part.text)]
    ELSE IF HasFunctionCall(part)
    THEN LET func_name == part.function_call.name
             tool_result == execute_tool(tl, func_name, outcome)
         IN  IF tool_result.raised
             THEN acc
             ELSE IF tool_result.success
             THEN [response_parts |->
                        Append(acc.response_parts,
                               "\n[Using " \o func_name \o "]: " \o tool_result.result),
                   function_calls_made |->
                        Append(acc.function_calls_made,
                               [tool |-> func_name, args |-> part.function_call.args,
                                result |-> tool_result.result])]
             ELSE [acc EXCEPT !.response_parts =
                        Append(@, "\n[Tool Error]: " \o tool_result.error)]
    ELSE acc

\* one iteration of the loop over response.candidates[0].content.parts
PartStep(tl, acc, part, outcome) ==
    IF HasText(part)
    THEN [acc EXCEPT !.response_parts = Append(@, part.text)]
    ELSE IF HasFunctionCall(part)
    THEN LET func_name == part.function_call.name
             tool_result == execute_tool(tl, func_name, outcome)
         IN  IF tool_result.raised
             THEN [acc EXCEPT !.response_parts =
                        Append(@, "\n[Tool Execution Error]: " \o tool_result.exception)]
             ELSE IF tool_result.success
             THEN [response_parts |->
                        Append(acc.response_parts,
                               "\n[Using " \o func_name \o "]: " \o tool_result.result),
                   function_calls_made |->
                        Append(acc.function_calls_made,
                               [tool |-> func_name, args |-> part.function_call.args,
                                result |-> tool_result.result])]
             ELSE [acc EXCEPT !.response_parts =
                        Append(@, "\n[Tool Error]: " \o tool_result.error)]
    ELSE acc

\* a loop that stops after the first part of the response
LoopParts_FirstOnly(tl, parts, outcomes, n) ==
    IF n = 0 THEN NoParts
    ELSE PartStep(tl, NoParts, parts[1],
                  IF 1 \in DOMAIN outcomes THEN outcomes[1] ELSE None)

RECURSIVE LoopParts(_, _, _, _)
\* the loop over the first n parts; outcomes[i] is what the tool of part i does
LoopParts(tl, parts, outcomes, n) ==
    IF n = 0 THEN NoParts
    ELSE PartStep(tl, LoopParts(tl, parts, outcomes, n - 1), parts[n],
                  IF n \in DOMAIN outcomes THEN outcomes[n] ELSE None)

\* str.strip() (blanks are the only whitespace in the queries)
RECURSIVE Strip(_)
Strip(s) ==
    IF Len(s) = 0 THEN s
    ELSE IF CharAt(s, 1) = " " THEN Strip(SubSeq(s, 2, Len(s)))
    ELSE IF CharAt(s, Len(s)) = " " THEN Strip(SubSeq(s, 1, Len(s) - 1))
    ELSE s

\* positions where re.search(r'[^=]+=\s*[^=]+', q) can start a match: a
\* non-"=" character whose next "=" is followed by a non-"=" character
MatchStarts(q) ==
    { i \in 1..Len(q) :
        /\ CharAt(q, i) # "="
        /\ \E j \in (i + 1)..(Len(q) - 1) :
              /\ CharAt(q, j) = "="
              /\ \A k \in i..(j - 1) : CharAt(q, k) # "="
              /\ CharAt(q, j + 1) # "=" }

\* re.search(...).group().strip(), or None when there is no match: the
\* leftmost match, extended greedily to the next "=" or the end
EquationMatch(q) ==
    IF MatchStarts(q) = {} THEN None
    ELSE LET i == Min(MatchStarts(q))
             j == Min({ k \in (i + 1)..Len(q) : CharAt(q, k) = "=" })
             later == { k \in (j + 1)..Len(q) : CharAt(q, k) = "=" }
             e == IF later = {} THEN Len(q) ELSE Min(later) - 1
         IN  Strip(SubSeq(q, i, e))

\* MathAgent._process_function_calls, the block after the loop: the manual
\* equation_solver invocation
ManualEquationSolving(tl, query, acc, outcome) ==
    IF /\ acc.function_calls_made = <<>>
       /\ tl # <<>>
       /\ Contains("=", query)
       /\ AnyWordIn(<<"x", "y", "solve">>, lower(query))
       /\ EquationMatch(query) # None
    THEN LET equation == EquationMatch(query)
             tool_result == execute_tool(tl, "equation_solver", outcome)
         IN  IF ~tool_result.raised /\ tool_result.success
             THEN [response_parts |->
                        Append(acc.response_parts,
                               "\n[Manual equation solving]: " \o equation
                                  \o " -> x = " \o tool_result.result),
                   function_calls_made |->
                        Append(acc.function_calls_made,
                               [tool |-> "equation_solver",
                                args |-> [equation |-> equation],
                                result |-> tool_result.result])]
             ELSE acc
    ELSE acc

\* _process_function_calls up to the formatting prompt, for agent k
ProcessParts(k, tl, query, parts, outcomes, manual) ==
    LET looped == LoopParts(tl, parts, outcomes, Len(parts))
    IN  IF k = "math"
        THEN ManualEquationSolving(tl, query, looped, manual)
        ELSE looped

RECURSIVE Join(_, _)
\* sep.join(parts)
Join(sep, parts) ==
    IF Len(parts) = 0 THEN ""
    ELSE IF Len(parts) = 1 THEN parts[1]
    ELSE parts[1] \o sep \o Join(sep, Tail(parts))

RECURSIVE TextsOf(_)
\* the texts of the text parts, in order
TextsOf(parts) ==
    IF Len(parts) = 0 THEN <<>>
    ELSE (IF HasText(Head(parts)) THEN <<Head(parts).text>> ELSE <<>>) \o TextsOf(Tail(parts))

\* the text _process_function_calls returns for a response without parts
NoPartsText == "I couldn't process your request properly. Please try again."

\* _process_function_calls returning the raw transcript in every case
FormattedOrRaw_AlwaysRaw(o, raw_response) == raw_response

\* what _process_function_calls returns after the formatting call o: the
\* formatted text, or the raw transcript when the call failed
FormattedOrRaw(o, raw_response) == IF o.ok THEN o.text ELSE raw_response

\* a success response that carries the fixed apology text whatever the
\* LLM returned
SpecialistSuccess_FixedText(k, tl, content, elapsed) ==
    AgentResponse(NoPartsText, SuccessConfidence[k],
                  <<AgentLabel[k], "Gemini 2.0 Flash">>, elapsed,
                  [agent |-> AgentLabel[k], tools_available |-> get_available_tools(tl)])

\* the AgentResponse at the end of the try block of process_task
SpecialistSuccess(k, tl, content, elapsed) ==
    AgentResponse(content, SuccessConfidence[k],
                  <<AgentLabel[k], "Gemini 2.0 Flash">>, elapsed,
                  [agent |-> AgentLabel[k], tools_available |-> get_available_tools(tl)])

\* the no-tools fallback response carrying the success confidence
SpecialistFallbackResponse_Success(k, tl, content, err, elapsed) ==
    AgentResponse(content, SuccessConfidence[k],
                  <<AgentLabel[k], "Gemini 2.0 Flash">>, elapsed,
                  [agent |-> AgentLabel[k], tools_available |-> get_available_tools(tl),
                   tools_error |-> err, fallback_mode |-> TRUE])

\* the AgentResponse of the no-tools fallback (except tools_error)
SpecialistFallbackResponse(k, tl, content, err, elapsed) ==
    AgentResponse(content, FallbackConfidence,
                  <<AgentLabel[k], "Gemini 2.0 Flash">>, elapsed,
                  [agent |-> AgentLabel[k], tools_available |-> get_available_tools(tl),
                   tools_error |-> err, fallback_mode |-> TRUE])

\* the outer except of process_task reporting no confidence at all
SpecialistExcept_NoConfidence(k, err, elapsed) ==
    AgentResponse("I encountered an error while processing your " \o k \o " question: "
                     \o err \o ". Please try rephrasing your question.",
                  0, <<>>, elapsed,
                  [error |-> err, agent |-> AgentLabel[k]])

\* the outer except of process_task: sources keeps its default []
SpecialistExcept(k, err, elapsed) ==
    AgentResponse("I encountered an error while processing your " \o k \o " question: "
                     \o err \o ". Please try rephrasing your question.",
                  ErrorConfidence, <<>>, elapsed,
                  [error |-> err, agent |-> AgentLabel[k]])

\* ------------------------------------------------------------ coordinator
CoordinatorName == "AI Tutor Coordinator"

\* AgentRegistry.get_agent(key): the agent registered under key, or None
get_agent(reg, key) == IF key \in reg THEN key ELSE None

\* process_task without its except clause: the exception reaches the caller
ProcessTaskExcept_Reraise(err, elapsed) ==
    [kind |-> "raise", response |-> NoResponse]

\* the except clause of TutorAgent.process_task: the exception becomes the
\* returned AgentResponse (sources keeps its default [])
ProcessTaskExcept(err, elapsed) ==
    [kind |-> "return",
     response |-> AgentResponse("I encountered an error while processing your request: "
                                   \o err \o ". Please try rephrasing your question.",
                                ErrorConfidence, <<>>, elapsed,
                                [error |-> err, agent |-> CoordinatorName])]

Return(response) == [kind |-> "return", response |-> response]

NoResult == [kind |-> "none", response |-> NoResponse]

\* routing_decision.get("confidence", 0) > 0.8: no decision has that key
ConfidenceText(rd) ==
    LET confidence == IF "confidence" \in DOMAIN rd THEN rd.confidence ELSE 0
    IN  IF confidence > 80 THEN "highly confident" ELSE "confident"

\* final_content of _enhance_specialist_response
EnhancedContent(rd, specialist_response, o) ==
    IF o.ok THEN o.text
    ELSE "I've connected you with our " \o rd.agent_name \o ", who is "
            \o ConfidenceText(rd) \o " about handling your question:\n\n"
            \o specialist_response.content

\* _enhance_specialist_response reporting the coordinator's own confidence
\* and sources
_enhance_specialist_response_Own(specialist_response, rd, execution_time, o) ==
    AgentResponse(EnhancedContent(rd, specialist_response, o),
                  GeneralConfidence,
                  <<CoordinatorName, "Gemini 2.0 Flash">>,
                  execution_time,
                  [coordinator |-> CoordinatorName,
                   routing_method |-> "gemini_function_calling",
                   delegated_to |-> rd.agent_key,
                   routing_reasoning |-> rd.reasoning,
                   specialist_execution_time_ms |-> specialist_response.execution_time_ms,
                   total_execution_time_ms |-> execution_time,
                   specialist_metadata |-> specialist_response.metadata])

\* TutorAgent._enhance_specialist_response; execution_time was taken on entry
_enhance_specialist_response(specialist_response, rd, execution_time, o) ==
    AgentResponse(EnhancedContent(rd, specialist_response, o),
                  specialist_response.confidence,
                  <<CoordinatorName>> \o specialist_response.sources,
                  execution_time,
                  [coordinator |-> CoordinatorName,
                   routing_method |-> "gemini_function_calling",
                   delegated_to |-> rd.agent_key,
                   routing_reasoning |-> rd.reasoning,
                   specialist_execution_time_ms |-> specialist_response.execution_time_ms,
                   total_execution_time_ms |-> execution_time,
                   specialist_metadata |-> specialist_response.metadata])

\* content of _handle_general_query
GeneralContent(t, o) ==
    IF o.ok THEN o.text
    ELSE "I'd be happy to help with your question: " \o t.query
            \o ". However, I encountered a technical issue. Could you please rephrase your question?"

\* TutorAgent._handle_general_query; execution_time is taken after the call
_handle_general_query(t, reasoning, reg, execution_time, o) ==
    AgentResponse(GeneralContent(t, o), GeneralConfidence,
                  <<CoordinatorName, "Gemini 2.0 Flash">>, execution_time,
                  [agent |-> CoordinatorName, mode |-> "general_tutor",
                   routing_reasoning |-> reasoning,
                   specialists_available |-> reg])

\* ------------------------------------------------- direct dispatch (main.py)
\* values of the path parameter of POST /ask_direct/{agent_type}
DirectAgentTypes == { "math", "Physics", "history" }

\* list(registry.agents.keys()): the registered keys in registration order
RegisteredKeys(reg) == SelectSeq(<<"math", "physics">>, LAMBDA k : k \in reg)

RECURSIVE ReprItems(_)
ReprItems(keys) ==
    IF keys = <<>> THEN ""
    ELSE "'" \o keys[1] \o "'"
            \o (IF Len(keys) > 1 THEN ", " ELSE "") \o ReprItems(Tail(keys))
\* the text an f-string gives for a list of strings
ListRepr(keys) == "[" \o ReprItems(keys) \o "]"

\* HTTPException(status_code, detail) as the framework answers it
HTTPException(status_code, detail) ==
    [status |-> status_code, detail |-> detail, body |-> NoResponse, agent_used |-> None]
\* a returned QueryResponse
QueryResponse(response, agent_used) ==
    [status |-> 200, detail |-> "", body |-> response, agent_used |-> agent_used]
NoHttp == [status |-> 0, detail |-> "", body |-> NoResponse, agent_used |-> None]

\* the HTTPException raised for an unregistered key
AgentNotFound(a, reg) ==
    [kind |-> "HTTPException",
     http |-> HTTPException(404, "Agent '" \o a \o "' not found. Available agents: "
                                    \o ListRepr(RegisteredKeys(reg)))]

\* handlers that turn every exception of the try block into a 500
ask_specific_agent_except_All500(exc) ==
    HTTPException(500, "Error processing request: " \o exc.http.detail)

\* the except clauses of ask_specific_agent: an HTTPException is re-raised
\* as it is, any other exception becomes a 500
ask_specific_agent_except(exc) ==
    IF exc.kind = "HTTPException" THEN exc.http
    ELSE HTTPException(500, "Error processing request: " \o exc.http.detail)

\* ------------------------------------- SessionManager (session_manager.py)
\* largest max_history a SessionManager is constructed with
MaxHistory == 2
\* SessionManager.expiry_seconds, scaled to the model's clock
expiry_seconds == 1
\* largest reading of time.time()
MaxTime == 3
\* largest number of turns held in `added` at one time
MaxAdds == 3

SessionIds == { "s1", "s2" }
\* session ids for which `not session_id` holds
UnsetIds == { None, "" }
\* the (query, agent_used) pairs add_interaction is called with
Interactions == { [query |-> "q1", agent_used |-> "Math Tutor"],
                  [query |-> "q2", agent_used |-> "AI Tutor Coordinator"] }
StoreResponse == "a"

\* not session_id
IsUnset(session_id) == session_id = None \/ session_id = ""

\* the empty dictionary
NoSessions == [sid \in {} |-> 0]
\* del sessions[sid]
Drop(ss, sid) == [k \in DOMAIN ss \ {sid} |-> ss[k]]
\* sessions[sid] = record
Put(ss, sid, record) == [k \in DOMAIN ss \cup {sid} |-> IF k = sid THEN record ELSE ss[k]]

\* the record add_interaction creates on first use
NewSession(t) == [history |-> <<>>, last_updated |-> t, agents_used |-> <<>>]
\* one element of session["history"]
Turn(query, response, t, agent_used) ==
    [query |-> query, response |-> response, timestamp |-> t, agent_used |-> agent_used]

\* expiry test rejecting a session from the moment its age equals the limit
IsExpired_AtLimit(t, session) == t - session.last_updated >= expiry_seconds

\* time.time() - session["last_updated"] > self.expiry_seconds
IsExpired(t, session) == t - session.last_updated > expiry_seconds

\* f"User: {turn['query']}\nAI: {turn['response']}\n"
FormatTurn(turn) == "User: " \o turn.query \o "\nAI: " \o turn.response \o "\n"
\* "\n".join([... for turn in history])
FormatHistory(history) ==
    Join("\n", [i \in 1..Len(history) |-> FormatTurn(history[i])])

\* a get_context that refreshes last_updated of the session it reads
get_context_Touch(ss, session_id, t) ==
    IF IsUnset(session_id) \/ session_id \notin DOMAIN ss
    THEN [sessions |-> ss, value |-> "", line |-> 26]
    ELSE IF IsExpired(t, ss[session_id])
    THEN [sessions |-> Drop(ss, session_id), value |-> "", line |-> 33]
    ELSE LET touched == Put(ss, session_id, [ss[session_id] EXCEPT !.last_updated = t])
         IN  IF ss[session_id].history = <<>>
             THEN [sessions |-> touched, value |-> "", line |-> 38]
             ELSE [sessions |-> touched,
                   value |-> FormatHistory(ss[session_id].history), line |-> 46]

\* SessionManager.get_context: the map afterwards, the string returned and
\* the line of the return statement taken
get_context(ss, session_id, t) ==
    IF IsUnset(session_id) \/ session_id \notin DOMAIN ss
    THEN [sessions |-> ss, value |-> "", line |-> 26]
    ELSE IF IsExpired(t, ss[session_id])
    THEN [sessions |-> Drop(ss, session_id), value |-> "", line |-> 33]
    ELSE IF ss[session_id].history = <<>>
    THEN [sessions |-> ss, value |-> "", line |-> 38]
    ELSE [sessions |-> ss, value |-> FormatHistory(ss[session_id].history), line |-> 46]

\* history[-m:]
LastSlice(history, m) ==
    IF m = 0 \/ m >= Len(history) THEN history
    ELSE SubSeq(history, Len(history) - m + 1, Len(history))

\* a trim that keeps the oldest turns
TrimHistory_KeepOldest(history, m) ==
    IF Len(history) > m THEN SubSeq(history, 1, m) ELSE history

\* if len(history) > max_history: history = history[-max_history:]
TrimHistory(history, m) ==
    IF Len(history) > m THEN LastSlice(history, m) ELSE history

\* agents_used as a log: every agent_used is appended
TrackAgent_AlwaysAppend(agents_used, agent_used) == Append(agents_used, agent_used)

\* if agent_used not in agents_used: agents_used.append(agent_used)
TrackAgent(agents_used, agent_used) ==
    IF \E i \in 1..Len(agents_used) : agents_used[i] = agent_used
    THEN agents_used ELSE Append(agents_used, agent_used)

\* an add_interaction whose guard lets the empty string through
add_interaction_OnlyNone(ss, session_id, query, response, agent_used, t, m) ==
    IF session_id = None THEN ss
    ELSE LET session == IF session_id \in DOMAIN ss THEN ss[session_id] ELSE NewSession(t)
         IN  Put(ss, session_id,
                 [history |-> TrimHistory(Append(session.history,
                                                 Turn(query, response, t, agent_used)), m),
                  last_updated |-> t,
                  agents_used |-> TrackAgent(session.agents_used, agent_used)])

\* SessionManager.add_interaction: the map afterwards
add_interaction(ss, session_id, query, response, agent_used, t, m) ==
    IF IsUnset(session_id) THEN ss
    ELSE LET session == IF session_id \in DOMAIN ss THEN ss[session_id] ELSE NewSession(t)
         IN  Put(ss, session_id,
                 [history |-> TrimHistory(Append(session.history,
                                                 Turn(query, response, t, agent_used)), m),
                  last_updated |-> t,
                  agents_used |-> TrackAgent(session.agents_used, agent_used)])

\* expired_ids of cleanup_expired_sessions
ExpiredIds(ss, t) == { sid \in DOMAIN ss : IsExpired(t, ss[sid]) }

\* a cleanup that reports the number of sessions it kept
cleanup_expired_sessions_CountsKept(ss, t) ==
    [sessions |-> [k \in DOMAIN ss \ ExpiredIds(ss, t) |-> ss[k]],
     value |-> Cardinality(DOMAIN ss \ ExpiredIds(ss, t))]

\* SessionManager.cleanup_expired_sessions: the map afterwards and the count
cleanup_expired_sessions(ss, t) ==
    [sessions |-> [k \in DOMAIN ss \ ExpiredIds(ss, t) |-> ss[k]],
     value |-> Cardinality(ExpiredIds(ss, t))]

\* a SessionManager call and its return value: the string of get_context
\* (value), the number of cleanup_expired_sessions (count)
Returned(op, session_id, value, count, line) ==
    [op |-> op, sid |-> session_id, value |-> value, count |-> count, line |-> line]
NoReturn == Returned("none", None, None, 0, 0)

RECURSIVE SumLen(_, _)
\* the number of turns in `added` for the ids S
SumLen(a, S) ==
    IF S = {} THEN 0
    ELSE LET sid == CHOOSE x \in S : TRUE IN Len(a[sid]) + SumLen(a, S \ {sid})

\* ------------------------------------- threads running add_interaction
Threads == { 1, 2 }
NoCall == [sid |-> None, query |-> "", agent_used |-> ""]

\* ------------------------------------------------------------------ state
VARIABLES
    registry,            \* keys of TutorAgent.registry.agents
    tools,               \* key -> self.tools (tool names) of that specialist
    pc,                  \* where the current process_task call stands
    clock,               \* time.time(), counted from the start of the current
                         \* request (the code only uses differences); one tick
                         \* per LLM call
    task,                \* the TaskRequest given to TutorAgent.process_task
    start_time,          \* start_time of TutorAgent.process_task
    routing_decision,    \* the dictionary _make_routing_decision returned
    specialist_task,     \* the TaskRequest given to the specialist
    specialist_start,    \* start_time of the specialist's process_task
    response_parts,      \* response_parts of _process_function_calls
    function_calls_made, \* function_calls_made of _process_function_calls
    tools_error,         \* str(tools_error) of the specialist, or None
    specialist_response, \* the AgentResponse the specialist returned
    enhance_time,        \* execution_time taken on entry of the enhancement
    result,              \* how TutorAgent.process_task ended
    llm_calls,           \* the generate_content calls of this request, in order
    endpoint,            \* the endpoint of main.py serving the current request
    agent_type,          \* the path parameter of /ask_direct/{agent_type}
    http,                \* the HTTP response of ask_specific_agent
    sessions,            \* SessionManager.sessions: session id -> record
    max_history,         \* SessionManager.max_history
    now,                 \* time.time() as the SessionManager reads it
    added,               \* session id -> the turns add_interaction was given
                         \* since the id's record was last absent from the map
    returned,            \* the last SessionManager call and what it returned
    tpc,                 \* thread -> the statement of add_interaction it is at
    targs,               \* thread -> the arguments of its add_interaction call
    tsession,            \* thread -> the record its local `session` refers to
    identity,            \* session id -> identity of the record mapped to it
    heap,                \* identity -> the record (a dictionary object)
    next_identity,       \* identity of the next record created
    expired_ids          \* thread -> the ids of its cleanup_expired_sessions
                         \* call that it has still to delete

request_vars == <<registry, tools, pc, clock, task, start_time, routing_decision,
                  specialist_task, specialist_start, response_parts, function_calls_made,
                  tools_error, specialist_response, enhance_time, result, llm_calls>>
request_vars_but_pc == <<registry, tools, clock, task, start_time, routing_decision,
                         specialist_task, specialist_start, response_parts,
                         function_calls_made, tools_error, specialist_response,
                         enhance_time, result, llm_calls>>
dispatch_vars == <<endpoint, agent_type, http>>
store_vars == <<sessions, max_history, now, added, returned>>
thread_vars == <<tpc, targs, tsession, identity, heap, next_identity, expired_ids>>
\* the SessionManager's state: no statement of TutorAgent or main.py touches it
session_manager_vars == <<store_vars, thread_vars>>

vars == <<request_vars, dispatch_vars, store_vars, thread_vars>>

config == <<registry, tools>>
specialist_vars == <<specialist_task, specialist_start, response_parts,
                     function_calls_made, tools_error, specialist_response>>

\* the key of the specialist whose process_task is running
AgentKeyInUse ==
    IF endpoint = "ask_direct" THEN lower(agent_type) ELSE routing_decision.agent_key

\* where control is when the specialist's process_task has returned: in
\* _enhance_specialist_response, or back in ask_specific_agent
SpecialistReturnsTo == IF endpoint = "ask_direct" THEN "direct_returning" ELSE "enhancing"

\* one generate_content call: who made it, for what, whether a tool catalog
\* was passed, what the prompt was built from, whether the call (and the
\* read of response.text, where the code reads it) succeeded, the text read
\* (for the specialist's tool-enabled call: the free text of the response),
\* and, for that call, the number of content parts (0 for the other calls)
Call(agent, kind, with_tools, prompt, ok, text, parts) ==
    [agent |-> agent, kind |-> kind, with_tools |-> with_tools, prompt |-> prompt,
     ok |-> ok, text |-> text, parts |-> parts]

\* len(response.candidates[0].content.parts), 0 without candidates
PartCount(response) ==
    IF response.candidates = <<>> THEN 0 ELSE Len(response.candidates[1])

\* the free text of a response: its text parts, joined
FreeText(response) ==
    IF response.candidates = <<>> THEN ""
    ELSE Join("\n", TextsOf(response.candidates[1]))

\* the query and context a prompt is built from
QueryPrompt(t) == [query |-> t.query, context |-> t.context]

\* the registries the coordinator may be constructed with: both
\* specialists registered, or none
RegistryConfigs == { AgentKeys, {} }

\* The registry is built once at start-up; which of the keys are
\* registered is configuration.  Tools are those added by the constructors.
\* no SessionManager call has been made
StoreInit ==
    /\ sessions = NoSessions
    /\ now = 0
    /\ added = [sid \in SessionIds |-> <<>>]
    /\ returned = NoReturn

\* no thread is inside add_interaction
ThreadsInit ==
    /\ tpc = [t \in Threads |-> "idle"]
    /\ targs = [t \in Threads |-> NoCall]
    /\ tsession = [t \in Threads |-> 0]
    /\ identity = NoSessions
    /\ heap = NoSessions
    /\ next_identity = 1
    /\ expired_ids = [t \in Threads |-> {}]

\* no request has been served yet
RequestStart ==
    /\ pc = "idle"
    /\ clock = 0
    /\ task = NoTask
    /\ start_time = 0
    /\ routing_decision = NoDecision
    /\ specialist_task = NoTask
    /\ specialist_start = 0
    /\ response_parts = <<>>
    /\ function_calls_made = <<>>
    /\ tools_error = None
    /\ specialist_response = NoResponse
    /\ enhance_time = 0
    /\ result = NoResult
    /\ llm_calls = <<>>
    /\ endpoint = None
    /\ agent_type = None
    /\ http = NoHttp

RequestInit ==
    /\ registry \in RegistryConfigs
    /\ tools = ConstructedTools
    /\ RequestStart

\* The coordinator after start-up.  main.py constructs no SessionManager
\* and TutorAgent calls none, so the store stays as constructed.
Init ==
    /\ RequestInit
    /\ StoreInit
    /\ max_history = MaxHistory
    /\ ThreadsInit

\* a caller invokes TutorAgent.process_task(t): start_time = time.time()
ProcessTask(t) ==
    /\ pc \in {"idle", "done"}
    /\ pc' = "routing"
    /\ task' = t
    /\ clock' = 0
    /\ start_time' = clock'
    /\ routing_decision' = NoDecision
    /\ specialist_task' = NoTask
    /\ specialist_start' = 0
    /\ response_parts' = <<>>
    /\ function_calls_made' = <<>>
    /\ tools_error' = None
    /\ specialist_response' = NoResponse
    /\ enhance_time' = 0
    /\ result' = NoResult
    /\ llm_calls' = <<>>
    /\ endpoint' = "ask"
    /\ agent_type' = None
    /\ http' = NoHttp
    /\ UNCHANGED <<config, session_manager_vars>>

\* Step 1: _make_routing_decision(task), one routing LLM call
RoutingDecision(response) ==
    /\ pc = "routing"
    /\ UNCHANGED <<dispatch_vars, session_manager_vars>>
    /\ routing_decision' = _make_routing_decision(task, response)
    /\ llm_calls' = Append(llm_calls,
                           Call("coordinator", "routing", TRUE, QueryPrompt(task),
                                ~response.raises, "", 0))
    /\ clock' = clock + 1
    /\ pc' = IF routing_decision'.action = "delegate" THEN "delegating"
             ELSE "handling_directly"
    /\ UNCHANGED <<config, task, start_time, specialist_vars, enhance_time, result>>

\* a delegation that goes on to the enhancement without waiting for the
\* specialist's process_task
DelegateToSpecialist_NoWait ==
    /\ pc = "delegating"
    /\ UNCHANGED <<dispatch_vars, session_manager_vars>>
    /\ LET agent == get_agent(registry, routing_decision.agent_key)
       IN  IF agent = None
           THEN /\ result' = ProcessTaskExcept(
                                "Agent '" \o routing_decision.agent_key
                                    \o "' not found in registry",
                                ElapsedMs(clock, start_time))
                /\ pc' = "done"
                /\ UNCHANGED <<specialist_task, specialist_start>>
           ELSE /\ specialist_task' = task
                /\ specialist_start' = clock
                /\ pc' \in {"specialist_running", "enhancing"}
                /\ UNCHANGED result
    /\ UNCHANGED <<config, clock, task, start_time, routing_decision,
                   response_parts, function_calls_made, tools_error,
                   specialist_response, enhance_time, llm_calls>>

\* Step 2: _delegate_to_specialist(agent_key, task, reasoning) up to the
\* call agent.process_task(task); a missing agent raises ValueError, which
\* the except clause of process_task turns into the error response
DelegateToSpecialist ==
    /\ pc = "delegating"
    /\ UNCHANGED <<dispatch_vars, session_manager_vars>>
    /\ LET agent == get_agent(registry, routing_decision.agent_key)
       IN  IF agent = None
           THEN /\ result' = ProcessTaskExcept(
                                "Agent '" \o routing_decision.agent_key
                                    \o "' not found in registry",
                                ElapsedMs(clock, start_time))
                /\ pc' = "done"
                /\ UNCHANGED <<specialist_task, specialist_start>>
           ELSE /\ specialist_task' = task
                /\ specialist_start' = clock
                /\ pc' = "specialist_running"
                /\ UNCHANGED result
    /\ UNCHANGED <<config, clock, task, start_time, routing_decision,
                   response_parts, function_calls_made, tools_error,
                   specialist_response, enhance_time, llm_calls>>

\* The specialist's process_task(task) from its start to the end of the
\* loop over the parts (and, for math, the manual equation solving): the
\* tool-enabled LLM call when tools are registered, the single plain call
\* otherwise.  outcomes[i] is what the tool run for part i does, manual what
\* the manually invoked equation_solver does.
SpecialistToolCall(response, outcomes, manual) ==
    /\ pc = "specialist_running"
    /\ UNCHANGED <<dispatch_vars, session_manager_vars>>
    /\ LET k  == AgentKeyInUse
           tl == tools[k]
           tool_schemas == tl
       IN  IF tool_schemas # <<>>
           THEN /\ llm_calls' = Append(llm_calls,
                                  Call(k, "tools", TRUE, QueryPrompt(specialist_task),
                                       ~response.raises, FreeText(response),
                                       PartCount(response)))
                /\ IF response.raises
                   THEN /\ tools_error' = LLMError
                        /\ pc' = "no_tools_fallback"
                        /\ UNCHANGED <<response_parts, function_calls_made, specialist_response>>
                   ELSE IF response.candidates = <<>> \/ response.candidates[1] = <<>>
                   THEN /\ specialist_response' =
                              SpecialistSuccess(k, tl, NoPartsText,
                                                ElapsedMs(clock + 1, specialist_start))
                        /\ pc' = SpecialistReturnsTo
                        /\ UNCHANGED <<response_parts, function_calls_made, tools_error>>
                   ELSE LET acc == ProcessParts(k, tl, specialist_task.query,
                                                response.candidates[1], outcomes, manual)
                        IN  /\ response_parts' = acc.response_parts
                            /\ function_calls_made' = acc.function_calls_made
                            /\ pc' = "synthesis"
                            /\ UNCHANGED <<tools_error, specialist_response>>
           ELSE /\ llm_calls' = Append(llm_calls,
                                  Call(k, "no_tools", FALSE, QueryPrompt(specialist_task),
                                       ResponseText(response).ok,
                                       ResponseText(response).text, 0))
                /\ specialist_response' =
                      IF ResponseText(response).ok
                      THEN SpecialistSuccess(k, tl, ResponseText(response).text,
                                             ElapsedMs(clock + 1, specialist_start))
                      ELSE SpecialistExcept(k, LLMError, ElapsedMs(clock + 1, specialist_start))
                /\ pc' = SpecialistReturnsTo
                /\ UNCHANGED <<response_parts, function_calls_made, tools_error>>
    /\ clock' = clock + 1
    /\ enhance_time' = ElapsedMs(clock', start_time)
    /\ UNCHANGED <<config, task, start_time, routing_decision,
                   specialist_task, specialist_start, result>>

\* a formatting step that uses up the first tool of the specialist's list
SpecialistSynthesis_ConsumesTool(o) ==
    /\ pc = "synthesis"
    /\ UNCHANGED <<dispatch_vars, session_manager_vars>>
    /\ LET k == AgentKeyInUse
           raw_response == Join("\n", response_parts)
           final_response == FormattedOrRaw(o, raw_response)
       IN  /\ llm_calls' = Append(llm_calls,
                                  Call(k, "synthesis", FALSE,
                                       [query |-> specialist_task.query,
                                        solution_process |-> raw_response,
                                        tool_results |-> function_calls_made],
                                       o.ok, o.text, 0))
           /\ specialist_response' =
                 SpecialistSuccess(k, tools[k], final_response,
                                   ElapsedMs(clock + 1, specialist_start))
           /\ tools' = [tools EXCEPT ![k] = Tail(@)]
    /\ clock' = clock + 1
    /\ enhance_time' = ElapsedMs(clock', start_time)
    /\ pc' = SpecialistReturnsTo
    /\ response_parts' = <<>>
    /\ function_calls_made' = <<>>
    /\ UNCHANGED <<registry, task, start_time, routing_decision,
                   specialist_task, specialist_start, tools_error, result>>

\* The end of _process_function_calls: the formatting LLM call is made
\* whenever the response had parts; then process_task returns the success
\* response.  A failed formatting call yields the raw transcript.  The two
\* lists are locals of _process_function_calls and are gone when it returns.
SpecialistSynthesis(o) ==
    /\ pc = "synthesis"
    /\ UNCHANGED <<dispatch_vars, session_manager_vars>>
    /\ LET k == AgentKeyInUse
           raw_response == Join("\n", response_parts)
           final_response == FormattedOrRaw(o, raw_response)
       IN  /\ llm_calls' = Append(llm_calls,
                                  Call(k, "synthesis", FALSE,
                                       [query |-> specialist_task.query,
                                        solution_process |-> raw_response,
                                        tool_results |-> function_calls_made],
                                       o.ok, o.text, 0))
           /\ specialist_response' =
                 SpecialistSuccess(k, tools[k], final_response,
                                   ElapsedMs(clock + 1, specialist_start))
    /\ clock' = clock + 1
    /\ enhance_time' = ElapsedMs(clock', start_time)
    /\ pc' = SpecialistReturnsTo
    /\ response_parts' = <<>>
    /\ function_calls_made' = <<>>
    /\ UNCHANGED <<config, task, start_time, routing_decision,
                   specialist_task, specialist_start, tools_error, result>>

\* a no-tools fallback that issues its call a second time when it failed
SpecialistFallback_Retry(o) ==
    /\ pc = "no_tools_fallback"
    /\ UNCHANGED <<dispatch_vars, session_manager_vars>>
    /\ LET k == AgentKeyInUse
           again == ~o.ok /\ Len(llm_calls) < 4
       IN  /\ llm_calls' = Append(llm_calls,
                                  Call(k, "no_tools", FALSE, QueryPrompt(specialist_task),
                                       o.ok, o.text, 0))
           /\ specialist_response' =
                 IF o.ok
                 THEN SpecialistFallbackResponse(k, tools[k], o.text, tools_error,
                                                 ElapsedMs(clock + 1, specialist_start))
                 ELSE IF again THEN specialist_response
                 ELSE SpecialistExcept(k, LLMError, ElapsedMs(clock + 1, specialist_start))
           /\ pc' = IF again THEN "no_tools_fallback" ELSE SpecialistReturnsTo
    /\ clock' = clock + 1
    /\ enhance_time' = ElapsedMs(clock', start_time)
    /\ UNCHANGED <<config, task, start_time, routing_decision,
                   specialist_task, specialist_start, response_parts,
                   function_calls_made, tools_error, result>>

\* except tools_error: one plain LLM call without tools; if it raises too,
\* the outer except of process_task returns the error response
SpecialistFallback(o) ==
    /\ pc = "no_tools_fallback"
    /\ UNCHANGED <<dispatch_vars, session_manager_vars>>
    /\ LET k == AgentKeyInUse
       IN  /\ llm_calls' = Append(llm_calls,
                                  Call(k, "no_tools", FALSE, QueryPrompt(specialist_task),
                                       o.ok, o.text, 0))
           /\ specialist_response' =
                 IF o.ok
                 THEN SpecialistFallbackResponse(k, tools[k], o.text, tools_error,
                                                 ElapsedMs(clock + 1, specialist_start))
                 ELSE SpecialistExcept(k, LLMError, ElapsedMs(clock + 1, specialist_start))
    /\ clock' = clock + 1
    /\ enhance_time' = ElapsedMs(clock', start_time)
    /\ pc' = SpecialistReturnsTo
    /\ UNCHANGED <<config, task, start_time, routing_decision,
                   specialist_task, specialist_start, response_parts,
                   function_calls_made, tools_error, result>>

\* a coordinator that hands an error response of the specialist back
\* without the enhancement call
Enhance_SkipsOnError(o) ==
    /\ pc = "enhancing"
    /\ endpoint = "ask"
    /\ UNCHANGED <<dispatch_vars, session_manager_vars>>
    /\ IF "error" \in DOMAIN specialist_response.metadata
       THEN /\ result' = Return(specialist_response)
            /\ UNCHANGED <<llm_calls, clock>>
       ELSE /\ llm_calls' = Append(llm_calls,
                                   Call("coordinator", "enhancement", FALSE,
                                        [query |-> routing_decision.query,
                                         reasoning |-> routing_decision.reasoning,
                                         specialist |-> routing_decision.agent_name,
                                         specialist_response |-> specialist_response.content],
                                        o.ok, o.text, 0))
            /\ result' = Return(_enhance_specialist_response(specialist_response,
                                                             routing_decision, enhance_time, o))
            /\ clock' = clock + 1
    /\ pc' = "done"
    /\ UNCHANGED <<config, task, start_time, routing_decision,
                   specialist_vars, enhance_time>>

\* Step 3: _enhance_specialist_response: one enhancement LLM call, then
\* process_task returns final_response
Enhance(o) ==
    /\ pc = "enhancing"
    /\ endpoint = "ask"
    /\ UNCHANGED <<dispatch_vars, session_manager_vars>>
    /\ llm_calls' = Append(llm_calls,
                           Call("coordinator", "enhancement", FALSE,
                                [query |-> routing_decision.query,
                                 reasoning |-> routing_decision.reasoning,
                                 specialist |-> routing_decision.agent_name,
                                 specialist_response |-> specialist_response.content],
                                o.ok, o.text, 0))
    /\ result' = Return(_enhance_specialist_response(specialist_response, routing_decision,
                                                     enhance_time, o))
    /\ clock' = clock + 1
    /\ pc' = "done"
    /\ UNCHANGED <<config, task, start_time, routing_decision,
                   specialist_vars, enhance_time>>

\* Step 2 of the other branch: _handle_general_query, one LLM call
HandleGeneralQuery(o) ==
    /\ pc = "handling_directly"
    /\ UNCHANGED <<dispatch_vars, session_manager_vars>>
    /\ llm_calls' = Append(llm_calls,
                           Call("coordinator", "general", FALSE,
                                [query |-> task.query, context |-> task.context,
                                 reasoning |-> routing_decision.reasoning],
                                o.ok, o.text, 0))
    /\ result' = Return(_handle_general_query(task, routing_decision.reasoning, registry,
                                              ElapsedMs(clock + 1, start_time), o))
    /\ clock' = clock + 1
    /\ pc' = "done"
    /\ UNCHANGED <<config, task, start_time, routing_decision,
                   specialist_vars, enhance_time>>

\* POST /ask_direct/{agent_type} up to the call agent.process_task(task);
\* an unregistered key ends the request with the 404
AskDirect(a, t) ==
    /\ pc \in {"idle", "direct_done"}
    /\ endpoint' = "ask_direct"
    /\ agent_type' = a
    /\ task' = t
    /\ clock' = 0
    /\ start_time' = 0
    /\ routing_decision' = NoDecision
    /\ response_parts' = <<>>
    /\ function_calls_made' = <<>>
    /\ tools_error' = None
    /\ specialist_response' = NoResponse
    /\ enhance_time' = 0
    /\ result' = NoResult
    /\ llm_calls' = <<>>
    /\ specialist_start' = 0
    /\ LET agent == get_agent(registry, lower(a))
       IN  IF agent = None
           THEN /\ http' = ask_specific_agent_except(AgentNotFound(a, registry))
                /\ specialist_task' = NoTask
                /\ pc' = "direct_done"
           ELSE /\ http' = NoHttp
                /\ specialist_task' = t
                /\ pc' = "specialist_running"
    /\ UNCHANGED <<config, session_manager_vars>>

\* agent.process_task(task) has returned: ask_specific_agent returns the
\* QueryResponse
AskDirectReturn ==
    /\ pc = "direct_returning"
    /\ http' = QueryResponse(specialist_response,
                             AgentName[AgentKeyInUse] \o " (Direct)")
    /\ pc' = "direct_done"
    /\ UNCHANGED <<request_vars_but_pc, endpoint, agent_type, session_manager_vars>>

Next ==
    \/ \E t \in Tasks : ProcessTask(t)
    \/ pc = "routing" /\ \E response \in RoutingResponses(task) : RoutingDecision(response)
    \/ DelegateToSpecialist
    \/ pc = "specialist_running" /\ \E response \in ToolResponses :
          \E outcomes \in [CallPositions(response) -> ToolOutcomes], manual \in ToolOutcomes :
             SpecialistToolCall(response, outcomes, manual)
    \/ \E o \in PlainOutcomes : SpecialistSynthesis(o)
    \/ \E o \in PlainOutcomes : SpecialistFallback(o)
    \/ \E o \in PlainOutcomes : Enhance(o)
    \/ \E o \in PlainOutcomes : HandleGeneralQuery(o)

Spec == Init /\ [][Next]_vars

\* the steps of one request (everything but the arrival of a new one)
Step ==
    \/ pc = "routing" /\ \E response \in RoutingResponses(task) : RoutingDecision(response)
    \/ DelegateToSpecialist
    \/ pc = "specialist_running" /\ \E response \in ToolResponses :
          \E outcomes \in [CallPositions(response) -> ToolOutcomes], manual \in ToolOutcomes :
             SpecialistToolCall(response, outcomes, manual)
    \/ \E o \in PlainOutcomes : SpecialistSynthesis(o)
    \/ \E o \in PlainOutcomes : SpecialistFallback(o)
    \/ \E o \in PlainOutcomes : Enhance(o)
    \/ \E o \in PlainOutcomes : HandleGeneralQuery(o)

\* the requests of POST /ask_direct/{agent_type}
DirectNext ==
    \/ \E a \in DirectAgentTypes, t \in Tasks : AskDirect(a, t)
    \/ pc = "specialist_running" /\ \E response \in ToolResponses :
          \E outcomes \in [CallPositions(response) -> ToolOutcomes], manual \in ToolOutcomes :
             SpecialistToolCall(response, outcomes, manual)
    \/ \E o \in PlainOutcomes : SpecialistSynthesis(o)
    \/ \E o \in PlainOutcomes : SpecialistFallback(o)
    \/ AskDirectReturn

DirectSpec == Init /\ [][DirectNext]_vars

\* the tool catalogs a specialist can hold: BaseAgent starts with
\* self.tools = [] and the subclass constructors add their tools
ToolCatalogs == { ConstructedTools, [k \in AgentKeys |-> <<>>] }

\* the coordinator over specialists built with or without their tools
CatalogInit ==
    /\ registry = AgentKeys
    /\ tools \in ToolCatalogs
    /\ RequestStart
    /\ StoreInit
    /\ max_history = MaxHistory
    /\ ThreadsInit

CatalogSpec == CatalogInit /\ [][Next]_vars

\* ------------------------------------------------ SessionManager calls
\* SessionManager(max_history, expiry_seconds) just constructed
SessionInit ==
    /\ RequestInit
    /\ registry = AgentKeys
    /\ StoreInit
    /\ max_history \in 0..MaxHistory
    /\ ThreadsInit

\* get_context(session_id), run to its return
GetContext(session_id) ==
    /\ LET r == get_context(sessions, session_id, now)
       IN  /\ sessions' = r.sessions
           /\ returned' = Returned("get_context", session_id, r.value, 0, r.line)
           /\ added' = [sid \in SessionIds |->
                           IF sid \in DOMAIN r.sessions THEN added[sid] ELSE <<>>]
    /\ UNCHANGED <<max_history, now, request_vars, dispatch_vars, thread_vars>>

\* add_interaction(session_id, query, response, agent_used), run to its return
AddInteraction(session_id, query, agent_used) ==
    /\ session_id \in SessionIds => SumLen(added, SessionIds) < MaxAdds
    /\ sessions' = add_interaction(sessions, session_id, query, StoreResponse,
                                    agent_used, now, max_history)
    /\ returned' = Returned("add_interaction", session_id, None, 0, 80)
    /\ added' = IF session_id \in SessionIds
                THEN [added EXCEPT ![session_id] =
                         Append(@, Turn(query, StoreResponse, now, agent_used))]
                ELSE added
    /\ UNCHANGED <<max_history, now, request_vars, dispatch_vars, thread_vars>>

\* cleanup_expired_sessions(), run to its return
CleanupExpiredSessions ==
    /\ LET r == cleanup_expired_sessions(sessions, now)
       IN  /\ sessions' = r.sessions
           /\ returned' = Returned("cleanup_expired_sessions", None, None, r.value, 110)
           /\ added' = [sid \in SessionIds |->
                           IF sid \in DOMAIN r.sessions THEN added[sid] ELSE <<>>]
    /\ UNCHANGED <<max_history, now, request_vars, dispatch_vars, thread_vars>>

\* a second passes; the last call's return value is no longer at hand
Tick ==
    /\ now < MaxTime
    /\ now' = now + 1
    /\ returned' = NoReturn
    /\ UNCHANGED <<sessions, max_history, added,
                   request_vars, dispatch_vars, thread_vars>>

SessionNext ==
    \/ \E session_id \in SessionIds \cup UnsetIds : GetContext(session_id)
    \/ \E session_id \in SessionIds \cup UnsetIds, i \in Interactions :
          AddInteraction(session_id, i.query, i.agent_used)
    \/ CleanupExpiredSessions
    \/ Tick

SessionSpec == SessionInit /\ [][SessionNext]_vars

\* ------------------------------- add_interaction, statement by statement
\* Threads run add_interaction on one SessionManager with no lock around
\* it; each statement of the method is one step.  A record is a dictionary
\* object: `session` is a reference to it, and the map holds references.
\* session ids the threads use
ThreadSessionIds == { "s1", "" }

\* self.sessions as the references and the objects give it
SessionsView(id, hp) == [sid \in DOMAIN id |-> hp[id[sid]]]

\* thread t moves from one statement to another
Goto(t, from, to) == tpc[t] = from /\ tpc' = [tpc EXCEPT ![t] = to]

\* a statement of thread t that leaves the map and the objects alone
ReadOnly(t) ==
    UNCHANGED <<targs, tsession, identity, heap, next_identity, sessions, added,
                max_history, now, returned, request_vars, dispatch_vars, expired_ids>>

\* a statement of thread t that writes the object `session` refers to
WriteSession(t, record) ==
    /\ heap' = [heap EXCEPT ![tsession[t]] = record]
    /\ sessions' = SessionsView(identity, heap')
    /\ UNCHANGED <<targs, tsession, identity, next_identity, added,
                   max_history, now, returned, request_vars, dispatch_vars, expired_ids>>

\* thread t calls add_interaction(session_id, query, response, agent_used)
AddInteractionCall(t, session_id, query, agent_used) ==
    /\ Goto(t, "idle", "check_unset")
    /\ session_id \in SessionIds => SumLen(added, SessionIds) < MaxAdds
    /\ targs' = [targs EXCEPT ![t] =
                    [sid |-> session_id, query |-> query, agent_used |-> agent_used]]
    /\ added' = IF session_id \in SessionIds
                THEN [added EXCEPT ![session_id] =
                         Append(@, Turn(query, StoreResponse, now, agent_used))]
                ELSE added
    /\ UNCHANGED <<tsession, identity, heap, next_identity, sessions,
                   max_history, now, returned, request_vars, dispatch_vars, expired_ids>>

\* if not session_id: return
CheckUnset(t) ==
    /\ Goto(t, "check_unset", IF IsUnset(targs[t].sid) THEN "idle" ELSE "check_exists")
    /\ ReadOnly(t)

\* if session_id not in self.sessions:
CheckExists(t) ==
    /\ Goto(t, "check_exists",
            IF targs[t].sid \notin DOMAIN identity THEN "create_session" ELSE "bind_session")
    /\ ReadOnly(t)

\* self.sessions[session_id] = {"history": [], "last_updated": ..., "agents_used": []}
CreateSession(t) ==
    /\ Goto(t, "create_session", "bind_session")
    /\ heap' = Put(heap, next_identity, NewSession(now))
    /\ identity' = Put(identity, targs[t].sid, next_identity)
    /\ next_identity' = next_identity + 1
    /\ sessions' = SessionsView(identity', heap')
    /\ UNCHANGED <<targs, tsession, added, max_history, now, returned,
                   request_vars, dispatch_vars, expired_ids>>

\* session = self.sessions[session_id]
BindSession(t) ==
    /\ Goto(t, "bind_session", "append_turn")
    /\ tsession' = [tsession EXCEPT ![t] = identity[targs[t].sid]]
    /\ UNCHANGED <<targs, identity, heap, next_identity, sessions, added,
                   max_history, now, returned, request_vars, dispatch_vars, expired_ids>>

\* session["history"].append({...})
AppendTurn(t) ==
    /\ Goto(t, "append_turn", "check_agent")
    /\ LET session == heap[tsession[t]]
       IN  WriteSession(t, [session EXCEPT !.history =
                               Append(@, Turn(targs[t].query, StoreResponse, now,
                                              targs[t].agent_used))])

\* if agent_used not in session["agents_used"]:
CheckAgent(t) ==
    /\ LET session == heap[tsession[t]]
       IN  Goto(t, "check_agent",
                IF TrackAgent(session.agents_used, targs[t].agent_used) # session.agents_used
                THEN "append_agent" ELSE "check_length")
    /\ ReadOnly(t)

\* session["agents_used"].append(agent_used)
AppendAgent(t) ==
    /\ Goto(t, "append_agent", "check_length")
    /\ LET session == heap[tsession[t]]
       IN  WriteSession(t, [session EXCEPT !.agents_used = Append(@, targs[t].agent_used)])

\* if len(session["history"]) > self.max_history:
CheckLength(t) ==
    /\ LET session == heap[tsession[t]]
       IN  Goto(t, "check_length",
                IF Len(session.history) > max_history THEN "trim_history"
                ELSE "update_timestamp")
    /\ ReadOnly(t)

\* session["history"] = session["history"][-self.max_history:]
TrimAndReassign(t) ==
    /\ Goto(t, "trim_history", "update_timestamp")
    /\ LET session == heap[tsession[t]]
       IN  WriteSession(t, [session EXCEPT !.history = LastSlice(@, max_history)])

\* session["last_updated"] = time.time(), and the method returns
UpdateTimestamp(t) ==
    /\ Goto(t, "update_timestamp", "idle")
    /\ LET session == heap[tsession[t]]
       IN  WriteSession(t, [session EXCEPT !.last_updated = now])

ThreadNext ==
    \/ \E t \in Threads, session_id \in ThreadSessionIds, i \in Interactions :
          AddInteractionCall(t, session_id, i.query, i.agent_used)
    \/ \E t \in Threads : CheckUnset(t)
    \/ \E t \in Threads : CheckExists(t)
    \/ \E t \in Threads : CreateSession(t)
    \/ \E t \in Threads : BindSession(t)
    \/ \E t \in Threads : AppendTurn(t)
    \/ \E t \in Threads : CheckAgent(t)
    \/ \E t \in Threads : AppendAgent(t)
    \/ \E t \in Threads : CheckLength(t)
    \/ \E t \in Threads : TrimAndReassign(t)
    \/ \E t \in Threads : UpdateTimestamp(t)

ThreadSpec == SessionInit /\ [][ThreadNext]_vars

\* ------------------------- get_context and cleanup_expired_sessions, threaded
\* The statements of get_context and cleanup_expired_sessions run by
\* several threads on a store that add_interaction calls have filled.
\* Neither method writes into a record, so the record itself stands for the
\* reference the local `session` holds.  A KeyError leaves the method; the
\* thread's position then is "KeyError".  Locals are gone on return.

\* the ids add_interaction was called with before the threads start
FilledIds == SUBSET SessionIds \ { {} }

\* the store after one add_interaction call for each of the ids, at time 0
StoreAfterAdds(ids) ==
    [sid \in ids |->
        add_interaction(NoSessions, sid, "q1", StoreResponse, "Math Tutor", 0, MaxHistory)[sid]]

ReaderInit ==
    /\ registry = AgentKeys
    /\ tools = ConstructedTools
    /\ RequestStart
    /\ \E ids \in FilledIds :
          /\ sessions = StoreAfterAdds(ids)
          /\ added = [sid \in SessionIds |->
                         IF sid \in ids
                         THEN <<Turn("q1", StoreResponse, 0, "Math Tutor")>> ELSE <<>>]
    /\ now = 0
    /\ returned = NoReturn
    /\ max_history = MaxHistory
    /\ ThreadsInit

\* a statement of thread t that leaves self.sessions alone
ReaderFrame(t) ==
    UNCHANGED <<sessions, added, max_history, now, returned, identity, heap,
                next_identity, request_vars, dispatch_vars>>

\* thread t returns from the method
ReturnFrom(t) ==
    /\ tpc' = [tpc EXCEPT ![t] = "idle"]
    /\ targs' = [targs EXCEPT ![t] = NoCall]
    /\ tsession' = [tsession EXCEPT ![t] = 0]
    /\ expired_ids' = [expired_ids EXCEPT ![t] = {}]

\* thread t calls get_context(session_id)
GetContextCall(t, session_id) ==
    /\ Goto(t, "idle", "check_known")
    /\ targs' = [targs EXCEPT ![t] = [sid |-> session_id, query |-> "", agent_used |-> ""]]
    /\ UNCHANGED <<tsession, expired_ids>>
    /\ ReaderFrame(t)

\* if not session_id or session_id not in self.sessions: return ""
CheckKnown(t) ==
    /\ tpc[t] = "check_known"
    /\ IF IsUnset(targs[t].sid) \/ targs[t].sid \notin DOMAIN sessions
       THEN ReturnFrom(t)
       ELSE /\ tpc' = [tpc EXCEPT ![t] = "read_session"]
            /\ UNCHANGED <<targs, tsession, expired_ids>>
    /\ ReaderFrame(t)

\* session = self.sessions[session_id]: KeyError when the key is gone
ReadSession(t) ==
    /\ tpc[t] = "read_session"
    /\ IF targs[t].sid \in DOMAIN sessions
       THEN /\ tsession' = [tsession EXCEPT ![t] = sessions[targs[t].sid]]
            /\ tpc' = [tpc EXCEPT ![t] = "check_expired"]
       ELSE /\ tpc' = [tpc EXCEPT ![t] = "KeyError"]
            /\ UNCHANGED tsession
    /\ UNCHANGED <<targs, expired_ids>>
    /\ ReaderFrame(t)

\* if time.time() - session["last_updated"] > self.expiry_seconds:
CheckExpired(t) ==
    /\ Goto(t, "check_expired",
            IF IsExpired(now, tsession[t]) THEN "delete_expired" ELSE "format_history")
    /\ UNCHANGED <<targs, tsession, expired_ids>>
    /\ ReaderFrame(t)

\* del self.sessions[session_id]; return "" -- KeyError when the key is gone
DeleteExpired(t) ==
    /\ tpc[t] = "delete_expired"
    /\ IF targs[t].sid \in DOMAIN sessions
       THEN /\ sessions' = Drop(sessions, targs[t].sid)
            /\ added' = [added EXCEPT ![targs[t].sid] = <<>>]
            /\ ReturnFrom(t)
       ELSE /\ tpc' = [tpc EXCEPT ![t] = "KeyError"]
            /\ UNCHANGED <<sessions, added, targs, tsession, expired_ids>>
    /\ UNCHANGED <<max_history, now, returned, identity, heap, next_identity,
                   request_vars, dispatch_vars>>

\* history = session["history"] ... return formatted_history (or "")
FormatAndReturn(t) ==
    /\ tpc[t] = "format_history"
    /\ ReturnFrom(t)
    /\ ReaderFrame(t)

\* thread t calls cleanup_expired_sessions(): current_time = time.time() and
\* the list comprehension that collects expired_ids
CollectExpired(t) ==
    /\ Goto(t, "idle", "delete_collected")
    /\ expired_ids' = [expired_ids EXCEPT ![t] = ExpiredIds(sessions, now)]
    /\ UNCHANGED <<targs, tsession>>
    /\ ReaderFrame(t)

\* for sid in expired_ids: del self.sessions[sid] -- one iteration; the
\* model's map keeps no insertion order, so any remaining id may be next;
\* KeyError when the key is gone
DeleteCollected(t) ==
    /\ tpc[t] = "delete_collected"
    /\ \E sid \in expired_ids[t] :
          IF sid \in DOMAIN sessions
          THEN /\ sessions' = Drop(sessions, sid)
               /\ added' = [added EXCEPT ![sid] = <<>>]
               /\ expired_ids' = [expired_ids EXCEPT ![t] = @ \ {sid}]
               /\ UNCHANGED tpc
          ELSE /\ tpc' = [tpc EXCEPT ![t] = "KeyError"]
               /\ UNCHANGED <<sessions, added, expired_ids>>
    /\ UNCHANGED <<targs, tsession, max_history, now, returned,
                   identity, heap, next_identity, request_vars, dispatch_vars>>

\* the loop is over: return len(expired_ids)
CleanupReturn(t) ==
    /\ tpc[t] = "delete_collected"
    /\ expired_ids[t] = {}
    /\ ReturnFrom(t)
    /\ ReaderFrame(t)

ReaderNext ==
    \/ Tick
    \/ \E t \in Threads, session_id \in SessionIds \cup UnsetIds : GetContextCall(t, session_id)
    \/ \E t \in Threads : CheckKnown(t)
    \/ \E t \in Threads : ReadSession(t)
    \/ \E t \in Threads : CheckExpired(t)
    \/ \E t \in Threads : DeleteExpired(t)
    \/ \E t \in Threads : FormatAndReturn(t)
    \/ \E t \in Threads : CollectExpired(t)
    \/ \E t \in Threads : DeleteCollected(t)
    \/ \E t \in Threads : CleanupReturn(t)

ReaderSpec == ReaderInit /\ [][ReaderNext]_vars

\* ------------------------------------------------------------- properties
\* the LLM calls the specialist made, in order
SpecialistCalls == SelectSeq(llm_calls, LAMBDA c : c.agent # "coordinator")
\* the specialist's synthesis (formatting) calls
SynthesisCalls == SelectSeq(llm_calls, LAMBDA c : c.kind = "synthesis")
\* the last LLM call of the request
LastCall == llm_calls[Len(llm_calls)]

\* the routing step is over and its LLM call raised
RoutingRaised == pc \notin {"idle", "routing"} /\ ~llm_calls[1].ok
\* the specialist's process_task was called and has returned
SpecialistReturned == pc \in {"enhancing", "done"} /\ specialist_task # NoTask
\* ... and its tool-enabled first call did not raise
ToolsPathReturned ==
    /\ SpecialistReturned
    /\ SpecialistCalls[1].kind = "tools"
    /\ SpecialistCalls[1].ok
\* process_task is over on the branch that handles the query directly
HandledDirectly == pc = "done" /\ routing_decision.action = "handle_directly"

\* C1: TutorAgent.process_task never raises to its caller: whatever the
\* routing, specialist, enhancement and direct-answer LLM calls do, every
\* unfinished request can take a step, and a finished one has returned an
\* AgentResponse with confidence in [0,1] and execution_time_ms >= 0.
C1_NeverRaises ==
    /\ result.kind \in {"none", "return"}
    /\ pc \notin {"idle", "done"} => ENABLED Step
    /\ pc = "done" =>
          /\ result.kind = "return"
          /\ result.response.confidence \in 0..100
          /\ result.response.execution_time_ms >= 0

\* a request in which all four LLM calls failed has returned
C1_Witness ==
    /\ pc = "done"
    /\ result.kind = "return"
    /\ Len(llm_calls) = 4
    /\ \A i \in 1..Len(llm_calls) : ~llm_calls[i].ok

\* C2: when the routing LLM call raises, the decision is DELEGATE to math
\* if the lower-cased query contains a math keyword, else DELEGATE to
\* physics if it contains a physics keyword, else HANDLE_DIRECTLY; the
\* forwarded query is the original one and the reasoning names the fallback
\* and the error.
C2_KeywordFallback ==
    RoutingRaised =>
        LET q == lower(task.query)
            math == \E w \in {"solve", "calculate", "equation", "math", "formula"} :
                        Contains(w, q)
            physics == \E w \in {"force", "energy", "physics", "voltage", "current"} :
                        Contains(w, q)
            d == routing_decision
        IN  /\ d.query = task.query
            /\ Contains("Fallback routing", d.reasoning)
            /\ Contains(LLMError, d.reasoning)
            /\ math => d.action = "delegate" /\ d.agent_key = "math"
            /\ (~math /\ physics) => d.action = "delegate" /\ d.agent_key = "physics"
            /\ (~math /\ ~physics) => d.action = "handle_directly" /\ d.agent_key = None
            /\ task.query = "solve 2x+5=15" => d.agent_key = "math"
            /\ task.query = "what is voltage across this resistor" => d.agent_key = "physics"
            /\ task.query = "tell me about Napoleon" => d.action = "handle_directly"
            /\ task.query = "Calculate the FORCE" => d.agent_key = "math"

\* the routing call raised on a query that matches both keyword sets, in
\* upper case, and the decision is math
C2_Witness ==
    /\ RoutingRaised
    /\ task.query = "Calculate the FORCE"
    /\ routing_decision.action = "delegate"
    /\ routing_decision.agent_key = "math"

\* a routing response without a structured decision: no candidates, no
\* parts, or only text parts and calls of undeclared functions
NoStructuredDecision(response) ==
    /\ ~response.raises
    /\ \/ response.candidates = <<>>
       \/ \A i \in 1..Len(response.candidates[1]) :
             LET part == response.candidates[1][i]
             IN  \/ ~HasFunctionCall(part)
                 \/ part.function_call.name \notin
                       {"route_to_math_agent", "route_to_physics_agent", "handle_general_query"}

\* C3: when the routing LLM call succeeds without a structured decision,
\* the decision is HANDLE_DIRECTLY with the original query, whatever
\* keywords the query contains; and on HANDLE_DIRECTLY no specialist runs.
C3_NoStructuredDecision ==
    /\ pc = "routing" =>
          \A response \in RoutingResponses(task) :
              NoStructuredDecision(response) =>
                  LET d == _make_routing_decision(task, response)
                  IN  /\ d.action = "handle_directly"
                      /\ d.agent_key = None
                      /\ d.query = task.query
    /\ (pc \notin {"idle", "routing"} /\ routing_decision.action = "handle_directly") =>
          /\ pc \in {"handling_directly", "done"}
          /\ specialist_task = NoTask
          /\ \A i \in 1..Len(llm_calls) : llm_calls[i].agent = "coordinator"

\* a query with a math keyword was answered directly after a routing
\* response without a function call
C3_Witness ==
    /\ HandledDirectly
    /\ llm_calls[1].ok
    /\ routing_decision.reasoning = "No clear specialization needed - handling as general query"
    /\ task.query = "solve 2x+5=15"
    /\ result.kind = "return"
    /\ Len(llm_calls) = 2

C5_SpecialistGetsRewrittenQuery ==
    specialist_task # NoTask =>
        specialist_task = [query |-> routing_decision.query, context |-> task.context,
                           user_id |-> task.user_id, session_id |-> task.session_id]

\* C6: on the delegate path the final confidence is the specialist's and
\* the final sources are ["AI Tutor Coordinator"] followed by the
\* specialist's sources, whether or not the enhancement call succeeded; when
\* it failed the content is the template with the specialist's name and
\* the specialist's content.
C6_EnhancementPreserves ==
    (pc = "done" /\ specialist_task # NoTask) =>
        /\ result.kind = "return"
        /\ LastCall.kind = "enhancement"
        /\ result.response.confidence = specialist_response.confidence
        /\ result.response.sources = <<"AI Tutor Coordinator">> \o specialist_response.sources
        /\ ~LastCall.ok =>
              result.response.content =
                  "I've connected you with our " \o AgentName[routing_decision.agent_key]
                     \o ", who is confident about handling your question:\n\n"
                     \o specialist_response.content

\* a delegated request whose enhancement call failed after a successful
\* math specialist run
C6_Witness ==
    /\ pc = "done"
    /\ specialist_task # NoTask
    /\ ~LastCall.ok
    /\ specialist_response.confidence = MathConfidence
    /\ Len(result.response.sources) = 3

\* C7 (as claimed): on HANDLE_DIRECTLY a successful direct-answer call gives
\* the LLM text at confidence 0.7, a failed one the apology at confidence 0.1.
C7_DirectAnswerConfidence ==
    HandledDirectly =>
        /\ LastCall.kind = "general"
        /\ LastCall.ok =>
              /\ result.response.content = LastCall.text
              /\ result.response.confidence = 70
        /\ ~LastCall.ok =>
              /\ result.response.content =
                    "I'd be happy to help with your question: " \o task.query
                       \o ". However, I encountered a technical issue. Could you please rephrase your question?"
              /\ result.response.confidence = 10

\* C8: a specialist's process_task always returns a response; when its
\* tool-enabled LLM call raises, exactly one plain call without tools
\* follows, whose text is returned at confidence 0.7, or, if it fails too,
\* an error-describing response at confidence 0.1.
C8_SpecialistFallback ==
    SpecialistReturned =>
        LET calls == SpecialistCalls
            r == specialist_response
        IN  /\ r.confidence \in 0..100
            /\ (calls[1].kind = "tools" /\ ~calls[1].ok) =>
                  /\ Len(calls) = 2
                  /\ calls[2].kind = "no_tools"
                  /\ ~calls[2].with_tools
                  /\ calls[2].ok => r.content = calls[2].text /\ r.confidence = 70
                  /\ ~calls[2].ok =>
                        /\ r.confidence = 10
                        /\ Contains("error", r.content)
                        /\ Contains(LLMError, r.content)

\* both the tool-enabled call and the plain call failed
C8_Witness ==
    /\ SpecialistReturned
    /\ Len(SpecialistCalls) = 2
    /\ ~SpecialistCalls[1].ok
    /\ ~SpecialistCalls[2].ok
    /\ specialist_response.confidence = 10

\* a tool was used: the synthesis prompt carries a tool result
ToolUsed == SynthesisCalls # <<>> /\ SynthesisCalls[1].prompt.tool_results # <<>>

\* C9 (as claimed), for a tool-enabled response with at least one part: the
\* synthesis call is made if and only if a tool was used; without a tool
\* exactly one LLM call is made and its free text is the content.
C9_SynthesisIffToolUsed ==
    (ToolsPathReturned /\ SpecialistCalls[1].parts > 0) =>
        /\ (SynthesisCalls # <<>>) <=> ToolUsed
        /\ ~ToolUsed =>
              /\ Len(SpecialistCalls) = 1
              /\ specialist_response.content = SpecialistCalls[1].text

\* C9 (amended): the synthesis call is made if and only if the tool-enabled
\* call returned at least one content part, whether or not a tool was used;
\* its text is the content when it succeeds, the raw transcript when it
\* fails; a response without parts gives the fixed text after one call.
C9_SynthesisIffParts ==
    ToolsPathReturned =>
        /\ (SynthesisCalls # <<>>) <=> (SpecialistCalls[1].parts > 0)
        /\ SynthesisCalls # <<>> =>
              /\ Len(SpecialistCalls) = 2
              /\ SpecialistCalls[2] = SynthesisCalls[1]
              /\ SynthesisCalls[1].ok =>
                    specialist_response.content = SynthesisCalls[1].text
              /\ ~SynthesisCalls[1].ok =>
                    specialist_response.content = SynthesisCalls[1].prompt.solution_process
        /\ SynthesisCalls = <<>> =>
              /\ Len(SpecialistCalls) = 1
              /\ specialist_response.content = NoPartsText

\* the synthesis call was made, and gave the content, though no tool was used
C9_Witness ==
    /\ ToolsPathReturned
    /\ SynthesisCalls # <<>>
    /\ ~ToolUsed
    /\ SynthesisCalls[1].ok
    /\ specialist_response.content = SynthesisCalls[1].text

\* C10 (as claimed): whenever an LLM call of the specialist failed, the
\* returned confidence is strictly below the agent's success constant.
C10_FailureLowersConfidence ==
    SpecialistReturned =>
        ((\E i \in 1..Len(SpecialistCalls) : ~SpecialistCalls[i].ok) =>
            specialist_response.confidence < SuccessConfidence[routing_decision.agent_key])

\* ------------------------------------------------ SessionManager properties
\* the most recent min(Len(turns), m) of the turns, oldest first
Recent(turns, m) ==
    SubSeq(turns, Len(turns) - (IF Len(turns) < m THEN Len(turns) ELSE m) + 1, Len(turns))

\* the SessionManager call that has just returned is op(sid)
JustReturned(op, sid) == returned.op = op /\ returned.sid = sid

\* C13: for max_history >= 1, after n add_interaction calls on a session id
\* its history is exactly the most recent min(n, max_history) turns given,
\* in insertion order, and get_context returns the transcript of those turns.
C13_SessionBounding ==
    max_history >= 1 =>
        \A sid \in DOMAIN sessions :
            /\ sessions[sid].history = Recent(added[sid], max_history)
            /\ JustReturned("get_context", sid) =>
                  returned.value = FormatHistory(Recent(added[sid], max_history))

\* three turns were given to a session that keeps two, and get_context has
\* just returned the transcript of the last two
C13_Witness ==
    /\ max_history = 2
    /\ "s1" \in DOMAIN sessions
    /\ Len(added["s1"]) = 3
    /\ added["s1"][2].query # added["s1"][3].query
    /\ JustReturned("get_context", "s1")
    /\ returned.value = FormatHistory(SubSeq(added["s1"], 2, 3))

\* C14: get_context on a session whose age exceeds expiry_seconds returns ""
\* and removes the session from the map; at an age up to and including
\* expiry_seconds the session is kept and its transcript is returned.
C14_ExpiryOnRead ==
    [][ \A sid \in DOMAIN sessions :
           ( /\ returned'.op = "get_context"
             /\ returned'.sid = sid
             /\ <<returned, sessions>>' # <<returned, sessions>> )
           => IF now - sessions[sid].last_updated > expiry_seconds
              THEN /\ returned'.value = ""
                   /\ sid \notin DOMAIN sessions'
                   /\ \A other \in DOMAIN sessions \ {sid} :
                         other \in DOMAIN sessions' /\ sessions'[other] = sessions[other]
              ELSE /\ returned'.value = FormatHistory(sessions[sid].history)
                   /\ sessions' = sessions ]_vars

\* get_context has just found a session with turns expired and deleted it
C14_Witness ==
    /\ returned.op = "get_context"
    /\ returned.line = 33
    /\ returned.sid \in SessionIds
    /\ returned.sid \notin DOMAIN sessions
    /\ returned.value = ""

\* C15 (as claimed): add_interaction on an expired session starts a fresh
\* record, so two consecutive turns of one history are never more than
\* expiry_seconds apart.
C15_ExpiredSessionDiscardedOnAdd ==
    \A sid \in DOMAIN sessions :
        \A i \in 1..(Len(sessions[sid].history) - 1) :
            sessions[sid].history[i + 1].timestamp - sessions[sid].history[i].timestamp
               <= expiry_seconds

\* C16: cleanup_expired_sessions removes exactly the sessions older than
\* expiry_seconds, returns their number, leaves the other sessions as they
\* were; afterwards no expired session is in the map and a second call
\* returns 0.
C16_CleanupExact ==
    [][ ( /\ returned'.op = "cleanup_expired_sessions"
          /\ <<returned, sessions>>' # <<returned, sessions>> )
        => LET expired == { sid \in DOMAIN sessions :
                               now - sessions[sid].last_updated > expiry_seconds }
           IN  /\ DOMAIN sessions' = DOMAIN sessions \ expired
               /\ \A sid \in DOMAIN sessions' : sessions'[sid] = sessions[sid]
               /\ returned'.count = Cardinality(expired)
               /\ \A sid \in DOMAIN sessions' :
                     now' - sessions'[sid].last_updated <= expiry_seconds
               /\ cleanup_expired_sessions(sessions', now').value = 0 ]_vars

\* a cleanup has just removed one session and kept another
C16_Witness ==
    /\ returned.op = "cleanup_expired_sessions"
    /\ returned.count = 1
    /\ DOMAIN sessions = {"s2"}
    /\ sessions["s2"].history # <<>>

\* C17: with an unset session id add_interaction leaves the session map
\* unchanged and get_context returns ""; get_context on an unknown id
\* returns "" and creates no record.
C17_UnsetOrUnknownId ==
    [][ /\ (returned'.op = "add_interaction" /\ returned'.sid \in UnsetIds)
              => sessions' = sessions
        /\ (returned'.op = "get_context" /\ returned'.sid \in UnsetIds)
              => returned'.value = "" /\ sessions' = sessions
        /\ (returned'.op = "get_context" /\ returned'.sid \notin DOMAIN sessions)
              => /\ returned'.value = ""
                 /\ sessions' = sessions ]_vars

\* add_interaction with the empty string as id has just returned, and the
\* map holds a session
C17_Witness ==
    /\ returned.op = "add_interaction"
    /\ returned.sid = ""
    /\ DOMAIN sessions = {"s1"}

\* no thread is inside add_interaction
AllReturned == \A t \in Threads : tpc[t] = "idle"

\* C18 (as claimed): when add_interaction calls of several threads on one
\* session id interleave statement by statement, no turn is lost: once all
\* calls have returned, the id's one record holds min(n, max_history) of
\* the n turns given.
C18_NoLostUpdate ==
    (AllReturned /\ max_history >= 1) =>
        \A sid \in SessionIds :
            added[sid] # <<>> =>
                /\ sid \in DOMAIN sessions
                /\ Len(sessions[sid].history) =
                      (IF Len(added[sid]) < max_history THEN Len(added[sid]) ELSE max_history)

CallCount(agents, kinds) ==
    Len(SelectSeq(llm_calls, LAMBDA c : c.agent \in agents /\ c.kind \in kinds))

\* at most 1 routing, 2 specialist, 1 enhancement and 1 direct-answer call;
\* at most 4 calls when delegating and 2 when answering directly; no call
\* that failed is issued again
CallBudget ==
    /\ CallCount({"coordinator"}, {"routing"}) <= 1
    /\ CallCount(AgentKeys, {"tools", "no_tools", "synthesis"}) <= 2
    /\ CallCount({"coordinator"}, {"enhancement"}) <= 1
    /\ CallCount({"coordinator"}, {"general"}) <= 1
    /\ Len(llm_calls) <= 4
    /\ routing_decision.action = "handle_directly" =>
          /\ Len(llm_calls) <= 2
          /\ CallCount(AgentKeys, {"tools", "no_tools", "synthesis"}) = 0
    /\ \A i, j \in 1..Len(llm_calls) :
          (i < j /\ ~llm_calls[i].ok) =>
              <<llm_calls[i].agent, llm_calls[i].kind, llm_calls[i].with_tools>>
                 # <<llm_calls[j].agent, llm_calls[j].kind, llm_calls[j].with_tools>>

\* the largest number of steps a request at this position still takes
StepsLeft(position) ==
    CASE position = "routing" -> 5
      [] position = "delegating" -> 4
      [] position = "specialist_running" -> 3
      [] position \in {"synthesis", "no_tools_fallback"} -> 2
      [] position \in {"enhancing", "handling_directly"} -> 1
      [] OTHER -> 0

\* C12: one TutorAgent.process_task issues at most 4 LLM calls when it
\* delegates (1 routing, at most 2 specialist, 1 enhancement) and at most 2
\* when it answers directly, never issues a failed call again, and
\* terminates whatever calls fail: an unfinished request can always take
\* its next step, and every step brings it nearer to its return.
C12_OneShotFallbacks ==
    /\ []CallBudget
    /\ [](pc \notin {"idle", "done"} => ENABLED Step)
    /\ [][pc \notin {"idle", "done"} => StepsLeft(pc') < StepsLeft(pc)]_vars

\* a delegated request of four calls: the tool-enabled call failed, the one
\* no-tools call after it succeeded, and the enhancement call failed
C12_Witness ==
    /\ pc = "done"
    /\ Len(llm_calls) = 4
    /\ llm_calls[2].kind = "tools" /\ ~llm_calls[2].ok
    /\ llm_calls[3].kind = "no_tools" /\ llm_calls[3].ok
    /\ llm_calls[4].kind = "enhancement" /\ ~llm_calls[4].ok

\* C19 (as claimed): a request that carries a session_id is recorded in the
\* session store when it has been answered.
C19_SessionUpdatedAfterRequest ==
    (endpoint = "ask" /\ pc = "done" /\ task.session_id # None) =>
        /\ task.session_id \in DOMAIN sessions
        /\ \E i \in 1..Len(sessions[task.session_id].history) :
              sessions[task.session_id].history[i].query = task.query

\* C20: POST /ask_direct/{agent_type} with an unregistered key answers 404
\* with a detail that lists the registered keys, calls no specialist, and
\* is never answered with a 500; a registered key is answered with 200.
C20_DirectDispatchNotFound ==
    /\ http.status # 500
    /\ (endpoint = "ask_direct" /\ pc = "direct_done") =>
          IF lower(agent_type) \notin registry
          THEN /\ http.status = 404
               /\ Contains("'" \o agent_type \o "' not found", http.detail)
               /\ \A k \in registry : Contains("'" \o k \o "'", http.detail)
               /\ llm_calls = <<>>
               /\ specialist_task = NoTask
               /\ specialist_response = NoResponse
          ELSE /\ http.status = 200
               /\ http.body = specialist_response

\* both specialists are registered and "history" was asked for
C20_Witness ==
    /\ pc = "direct_done"
    /\ agent_type = "history"
    /\ registry = AgentKeys
    /\ http.status = 404
    /\ http.detail = "Agent 'history' not found. Available agents: ['math', 'physics']"

\* the confidence each completed path of a specialist's process_task reports
PathConfidence(k, response) ==
    IF "error" \in DOMAIN response.metadata THEN ErrorConfidence
    ELSE IF "fallback_mode" \in DOMAIN response.metadata THEN FallbackConfidence
    ELSE SuccessConfidence[k]

\* C21: confidence is a fixed constant per completed path: a response of
\* MathAgent.process_task has confidence 0.9 (success), 0.7 (no-tools
\* fallback) or 0.1 (error), one of PhysicsAgent.process_task 0.85, 0.7 or
\* 0.1, whatever its content is, and every response of
\* TutorAgent.process_task has confidence 0.9, 0.85, 0.7 or 0.1.
C21_ConfidenceConstants ==
    /\ specialist_response # NoResponse =>
          /\ specialist_response.confidence = PathConfidence(AgentKeyInUse, specialist_response)
          /\ AgentKeyInUse = "math" =>
                specialist_response.confidence
                   \in {MathConfidence, FallbackConfidence, ErrorConfidence}
          /\ AgentKeyInUse = "physics" =>
                specialist_response.confidence
                   \in {PhysicsConfidence, FallbackConfidence, ErrorConfidence}
    /\ result.kind = "return" =>
          result.response.confidence
             \in {MathConfidence, PhysicsConfidence, FallbackConfidence, ErrorConfidence}

\* the physics specialist's error response, passed on by the coordinator
C21_Witness ==
    /\ pc = "done"
    /\ result.kind = "return"
    /\ routing_decision.agent_key = "physics"
    /\ specialist_response.confidence = ErrorConfidence
    /\ result.response.confidence = ErrorConfidence

\* positions in llm_calls of the calls of the given kinds
CallsOfKind(kinds) == { i \in 1..Len(llm_calls) : llm_calls[i].kind \in kinds }

\* C22: within one request the steps are strictly ordered and the two
\* branches are exclusive: the routing call is the first LLM call and its
\* decision is there before any specialist or direct-answer call is made;
\* the enhancement call is made only after the specialist's process_task
\* has returned, so it follows every call of the specialist; and no request
\* makes both specialist calls and a direct-answer call.
C22_StepOrder ==
    /\ llm_calls # <<>> =>
          /\ CallsOfKind({"routing"}) = {1}
          /\ Len(llm_calls) > 1 => routing_decision # NoDecision
    /\ \A i \in CallsOfKind({"enhancement"}) :
          /\ specialist_response # NoResponse
          /\ i = Len(llm_calls)
          /\ \E j \in 1..(i - 1) : llm_calls[j].agent # "coordinator"
    /\ \A i \in CallsOfKind({"tools", "no_tools", "synthesis", "general"}) :
          routing_decision.action =
             (IF llm_calls[i].kind = "general" THEN "handle_directly" ELSE "delegate")
    /\ CallsOfKind({"general"}) = {} \/ CallsOfKind({"tools", "no_tools", "synthesis"}) = {}
    /\ pc \in {"specialist_running", "synthesis", "no_tools_fallback"} =>
          CallsOfKind({"enhancement", "general"}) = {}

\* a delegated request that made all of its four LLM calls
C22_Witness ==
    /\ pc = "done"
    /\ Len(llm_calls) = 4
    /\ llm_calls[2].kind = "tools"
    /\ llm_calls[3].kind = "synthesis"
    /\ llm_calls[4].kind = "enhancement"
    /\ llm_calls[4].ok

\* a routing decision as the callers of _make_routing_decision read it
WellFormedDecision(rd) ==
    /\ rd.action \in {"delegate", "handle_directly"}
    /\ rd.reasoning # None
    /\ rd.query # None
    /\ rd.agent_key # None <=> rd.action = "delegate"
    /\ rd.action = "delegate" =>
          /\ rd.agent_key \in AgentKeys
          /\ rd.agent_name = AgentName[rd.agent_key]

\* C23: _make_routing_decision always returns a well-formed decision,
\* whatever the routing LLM call does (raise, no candidates, any parts):
\* action is delegate or handle_directly, reasoning and query are present,
\* and agent_key is present exactly when action is delegate, and is then
\* math or physics.
C23_WellFormedDecision ==
    /\ pc = "routing" =>
          \A response \in RoutingResponses(task) :
             WellFormedDecision(_make_routing_decision(task, response))
    /\ (endpoint = "ask" /\ pc \notin {"idle", "routing"}) =>
          WellFormedDecision(routing_decision)

\* the routing LLM named the physics specialist without giving reasoning
\* or query: the decision is complete all the same
C23_Witness ==
    /\ pc = "delegating"
    /\ routing_decision.agent_key = "physics"
    /\ routing_decision.reasoning = "Physics-related query"
    /\ routing_decision.query = task.query
    /\ llm_calls[1].ok

\* the function call that decides the routing of a response (0 if none)
DecidingPart(response) ==
    IF /\ ~response.raises
       /\ response.candidates # <<>>
       /\ ReturningParts(response.candidates[1]) # {}
    THEN Min(ReturningParts(response.candidates[1]))
    ELSE 0

\* the deciding function call lacks a field the declaration requires
OmitsRequiredField(response) ==
    /\ DecidingPart(response) # 0
    /\ LET args == response.candidates[1][DecidingPart(response)].function_call.args
       IN  args.reasoning = None \/ args.query = None

\* C24: a routing function call that names a declared option but omits a
\* required field (reasoning or query) is treated as "no structured
\* decision": the routing step does not end with a DELEGATE decision taken
\* from that call.
C24_MissingFieldNotDelegated ==
    [][pc = "routing" => \A response \in RoutingResponses(task) :
          (RoutingDecision(response) /\ OmitsRequiredField(response)) =>
             routing_decision'.action # "delegate"]_vars

\* positions of the parts of a response that carry a function call
FunctionCallParts(parts) == { i \in 1..Len(parts) : HasFunctionCall(parts[i]) }

\* the response cut after its first function-call part
UpToFirstCall(response) ==
    IF response.candidates = <<>> \/ FunctionCallParts(response.candidates[1]) = {}
    THEN response
    ELSE [response EXCEPT !.candidates =
             << SubSeq(response.candidates[1], 1,
                       Min(FunctionCallParts(response.candidates[1]))) >>]

\* C25: the routing decision is determined by the first function-call part
\* of the routing response: the decision taken is the one the response cut
\* after its first function call would give, also when that first call
\* names an unknown function.
C25_FirstCallDecides ==
    [][pc = "routing" => \A response \in RoutingResponses(task) :
          RoutingDecision(response) =>
             routing_decision' = _make_routing_decision(task, UpToFirstCall(response))]_vars

\* the parts of a response that name a tool not registered on tl
UnregisteredCalls(tl, response) ==
    { i \in CallPositions(response) :
         response.candidates[1][i].function_call.name \notin ToolNameSet(tl) }

\* the responses of the tool-enabled call that _process_function_calls
\* runs its loop on: they have a candidate with at least one part
ResponsesWithParts ==
    { response \in ToolResponses :
         ~response.raises /\ response.candidates # <<>> /\ response.candidates[1] # <<>> }

\* the specialist's process_task is about to make its tool-enabled call
AtToolCall == pc = "specialist_running" /\ tools[AgentKeyInUse] # <<>>

\* response_parts and function_calls_made as _process_function_calls
\* leaves them for this response of the call the specialist is about to make
Transcript(response, outcomes, manual) ==
    ProcessParts(AgentKeyInUse, tools[AgentKeyInUse], specialist_task.query,
                 response.candidates[1], outcomes, manual)

\* C26: a tool-invocation request naming a tool that is not registered on
\* the specialist does not throw out of the tool sub-protocol: its part
\* leaves a failure line naming the tool in the transcript, every other
\* part of the response is processed as well, and control goes on to the
\* synthesis call; the no-tools fallback is entered only when the
\* tool-enabled LLM call itself raised.
C26_UnregisteredToolDegrades ==
    /\ [](AtToolCall =>
            \A response \in ResponsesWithParts :
               \A outcomes \in [CallPositions(response) -> ToolOutcomes], manual \in ToolOutcomes :
                  LET acc == Transcript(response, outcomes, manual)
                      parts == response.candidates[1]
                  IN  /\ Len(acc.response_parts) >= Len(parts)
                      /\ \A i \in UnregisteredCalls(tools[AgentKeyInUse], response) :
                            acc.response_parts[i] =
                               "\n[Tool Execution Error]: Tool '"
                                  \o parts[i].function_call.name \o "' not found"
                      /\ \A i \in 1..Len(parts) :
                            HasText(parts[i]) => acc.response_parts[i] = parts[i].text)
    /\ [][(pc = "specialist_running" /\ LastCall'.ok /\ LastCall'.parts > 0) =>
             (pc' = "synthesis" /\ tools_error' = None)]_vars
    /\ []((pc = "no_tools_fallback" \/ tools_error # None) => ~SpecialistCalls[1].ok)

\* an unregistered tool was asked for first and a registered one, which
\* ran, second
C26_Witness ==
    /\ pc = "synthesis"
    /\ Len(response_parts) = 2
    /\ response_parts[1] = "\n[Tool Execution Error]: Tool 'unit_converter' not found"
    /\ response_parts[2] = "\n[Using calculator]: 5"

\* the transcript line of one dispatched tool-invocation request
OutcomeLine(tl, func_name, outcome) ==
    IF func_name \notin ToolNameSet(tl)
    THEN "\n[Tool Execution Error]: Tool '" \o func_name \o "' not found"
    ELSE CASE outcome = "success" -> "\n[Using " \o func_name \o "]: " \o ToolResultValue
           [] outcome = "failure" -> "\n[Tool Error]: " \o ToolErrorText
           [] outcome = "raise" -> "\n[Tool Execution Error]: unexpected keyword argument"

\* the requests of a response that ran and succeeded, in response order
SucceededCalls(tl, response, outcomes) ==
    LET parts == response.candidates[1]
        made(i) == /\ i \in CallPositions(response)
                   /\ parts[i].function_call.name \in ToolNameSet(tl)
                   /\ outcomes[i] = "success"
        F[n \in 0..Len(parts)] ==
            IF n = 0 THEN <<>>
            ELSE IF made(n) THEN Append(F[n - 1], parts[n].function_call.name)
            ELSE F[n - 1]
    IN  F[Len(parts)]

\* the tools recorded in a function_calls_made list, in order
ToolsMade(made) == [i \in 1..Len(made) |-> made[i].tool]

\* C27: every tool-invocation request of the specialist's first LLM
\* response is dispatched once, in the order of the response parts, and
\* its outcome is put in the transcript at its part's place: the result on
\* success, the tool's error text verbatim on failure; the transcript given
\* to the synthesis LLM call contains every line.
C27_ToolCallsInOrder ==
    /\ [](AtToolCall =>
            \A response \in ResponsesWithParts :
               \A outcomes \in [CallPositions(response) -> ToolOutcomes], manual \in ToolOutcomes :
                  LET tl == tools[AgentKeyInUse]
                      acc == Transcript(response, outcomes, manual)
                      parts == response.candidates[1]
                      made == SucceededCalls(tl, response, outcomes)
                      ran(i) == parts[i].function_call.name \in ToolNameSet(tl)
                  IN  /\ Len(acc.response_parts) >= Len(parts)
                      /\ \A i \in CallPositions(response) :
                            /\ acc.response_parts[i] =
                                  OutcomeLine(tl, parts[i].function_call.name, outcomes[i])
                            /\ (ran(i) /\ outcomes[i] = "success") =>
                                  Contains(ToolResultValue, acc.response_parts[i])
                            /\ (ran(i) /\ outcomes[i] = "failure") =>
                                  Contains(ToolErrorText, acc.response_parts[i])
                      /\ SubSeq(ToolsMade(acc.function_calls_made), 1, Len(made)) = made)
    /\ [][(pc = "synthesis" /\ pc' # "synthesis") =>
             /\ LastCall'.kind = "synthesis"
             /\ LastCall'.prompt.tool_results = function_calls_made
             /\ \A i \in 1..Len(response_parts) :
                   Contains(response_parts[i], LastCall'.prompt.solution_process)]_vars

\* a request whose first response asked for the calculator twice: it failed
\* the first time and succeeded the second, and the synthesis call was made
\* with both outcomes
C27_Witness ==
    /\ SynthesisCalls # <<>>
    /\ SynthesisCalls[1].prompt.solution_process =
          "\n[Tool Error]: missing required field\n\n[Using calculator]: 5"
    /\ Len(SynthesisCalls[1].prompt.tool_results) = 1

\* positions of the transcript lines the manual equation_solver call wrote
ManualLines(transcript) ==
    { i \in 1..Len(transcript) : Contains("[Manual equation solving]", transcript[i]) }

\* positions of the transcript lines written for tool invocations the LLM
\* asked for: succeeded, failed, or raised
RequestedLines(transcript) ==
    { i \in 1..Len(transcript) :
         \/ Contains("[Using ", transcript[i])
         \/ Contains("[Tool Error]", transcript[i])
         \/ Contains("[Tool Execution Error]", transcript[i]) }

\* C28: the math specialist's corrective direct equation_solver invocation
\* happens at most once per process_task, only when the LLM's response
\* made no tool invocation at all and the query contains "=" together with
\* "x", "y" or "solve"; it is not performed after an LLM-requested tool
\* invocation that was executed but failed.
C28_ManualSolverOnlyWithoutToolCalls ==
    ManualLines(response_parts) # {} =>
       /\ Cardinality(ManualLines(response_parts)) = 1
       /\ AgentKeyInUse = "math"
       /\ Contains("=", specialist_task.query)
       /\ AnyWordIn(<<"x", "y", "solve">>, lower(specialist_task.query))
       /\ RequestedLines(response_parts) = {}

\* the specialist's tool-enabled call returned a malformed response: no
\* candidates, or a candidate without content parts
MalformedResponse ==
    /\ SpecialistCalls # <<>>
    /\ SpecialistCalls[1].kind = "tools"
    /\ SpecialistCalls[1].ok
    /\ SpecialistCalls[1].parts = 0

\* C29: a malformed specialist LLM response (no candidates or no content
\* parts) is handled as an LLM failure: one plain call without tools is
\* made, and the response carries the fallback confidence 0.7 when that
\* call succeeds, never the agent's success confidence.
C29_MalformedResponseFallsBack ==
    (MalformedResponse /\ specialist_response # NoResponse) =>
       /\ Len(SpecialistCalls) = 2
       /\ SpecialistCalls[2].kind = "no_tools"
       /\ ~SpecialistCalls[2].with_tools
       /\ specialist_response.confidence # SuccessConfidence[AgentKeyInUse]
       /\ SpecialistCalls[2].ok => specialist_response.confidence = FallbackConfidence

\* the specialist in use has an empty tool catalog and its process_task
\* has returned
ReturnedWithoutCatalog ==
    /\ endpoint = "ask"
    /\ specialist_response # NoResponse
    /\ tools[AgentKeyInUse] = <<>>

\* C30: a specialist whose tool catalog is empty skips the tool-invocation
\* branch entirely: process_task makes exactly one LLM call, without a
\* tool catalog, executes no tool, makes no synthesis (and no fallback)
\* call, and returns that call's text as content; if the call fails it
\* returns the error response.
C30_EmptyCatalogSingleCall ==
    /\ (pc \in {"synthesis", "no_tools_fallback"} \/ response_parts # <<>>
          \/ function_calls_made # <<>>) => tools[AgentKeyInUse] # <<>>
    /\ ReturnedWithoutCatalog =>
          /\ Len(SpecialistCalls) = 1
          /\ SpecialistCalls[1].kind = "no_tools"
          /\ ~SpecialistCalls[1].with_tools
          /\ SynthesisCalls = <<>>
          /\ tools_error = None
          /\ specialist_response.metadata.agent = AgentLabel[AgentKeyInUse]
          /\ IF SpecialistCalls[1].ok
             THEN /\ specialist_response.content = SpecialistCalls[1].text
                  /\ specialist_response.confidence = SuccessConfidence[AgentKeyInUse]
                  /\ specialist_response.metadata.tools_available = <<>>
             ELSE specialist_response.confidence = ErrorConfidence

\* the physics specialist, built without tools, answered with one plain call
C30_Witness ==
    /\ ReturnedWithoutCatalog
    /\ AgentKeyInUse = "physics"
    /\ pc = "enhancing"
    /\ SpecialistCalls[1].ok
    /\ specialist_response.content = "Let me work this out"

\* the locals of a process_task call as they are when the call starts
FreshRequest ==
    /\ routing_decision = NoDecision
    /\ specialist_task = NoTask
    /\ response_parts = <<>>
    /\ function_calls_made = <<>>
    /\ tools_error = None
    /\ specialist_response = NoResponse
    /\ result = NoResult
    /\ llm_calls = <<>>
    /\ clock = 0

C32_HistoryWithinMax ==
    \A sid \in DOMAIN sessions : Len(sessions[sid].history) <= max_history

\* the agent_used values of a sequence of turns
AgentsOf(turns) == { turns[i].agent_used : i \in 1..Len(turns) }

\* C33: a session's agents_used holds distinct values only and contains the
\* agent_used of every turn in the session's history; it is not trimmed
\* with the history, so it holds every agent given to add_interaction since
\* the session record was created.
C33_AgentsUsedDistinctComplete ==
    \A sid \in DOMAIN sessions :
       LET agents_used == sessions[sid].agents_used
       IN  /\ \A i, j \in 1..Len(agents_used) :
                 agents_used[i] = agents_used[j] => i = j
           /\ AgentsOf(sessions[sid].history) \subseteq
                 { agents_used[i] : i \in 1..Len(agents_used) }
           /\ { agents_used[i] : i \in 1..Len(agents_used) } = AgentsOf(added[sid])

\* three turns by two agents were given to a session that keeps one turn:
\* the history holds the last turn, agents_used both agents
C33_Witness ==
    /\ max_history = 1
    /\ "s1" \in DOMAIN sessions
    /\ Len(added["s1"]) = 3
    /\ Len(sessions["s1"].history) = 1
    /\ sessions["s1"].agents_used = <<"Math Tutor", "AI Tutor Coordinator">>
    /\ sessions["s1"].history[1].agent_used = "Math Tutor"

\* process_task returned on the delegate path, through the enhancement
DelegatedAndReturned ==
    /\ endpoint = "ask"
    /\ pc = "done"
    /\ result.kind = "return"
    /\ llm_calls # <<>>
    /\ LastCall.kind = "enhancement"

\* C34: the coordinator's execution_time_ms is measured end-to-end: on the
\* delegate path, with the clock advancing on every LLM call, the reported
\* execution_time_ms and metadata total_execution_time_ms span the routing
\* call, the specialist run and the enhancement call, that is the time from
\* the start of process_task to its return, which is at least
\* specialist_execution_time_ms plus the one tick of the enhancement call.
C34_ExecutionTimeEndToEnd ==
    DelegatedAndReturned =>
       /\ result.response.execution_time_ms = ElapsedMs(clock, start_time)
       /\ result.response.metadata.total_execution_time_ms = ElapsedMs(clock, start_time)
       /\ result.response.execution_time_ms >=
             result.response.metadata.specialist_execution_time_ms + ElapsedMs(1, 0)

\* get_context(sid) has just returned from a live session: through the
\* empty-history return or the final one
ReadLive(sid) ==
    /\ returned'.op = "get_context"
    /\ returned'.sid = sid
    /\ returned'.line \in {38, 46}

\* C35: get_context on a live (non-expired) session is read-only: the
\* session map with every history, agents_used and last_updated is as
\* before, so last_updated is always the time of the last add_interaction
\* and a session that is only read is dropped by the first read made more
\* than expiry_seconds after that.
C35_ReadDoesNotTouch ==
    /\ [][\A sid \in SessionIds : ReadLive(sid) =>
             /\ sessions' = sessions
             /\ now - sessions[sid].last_updated <= expiry_seconds]_vars
    /\ [](\A sid \in DOMAIN sessions :
             sessions[sid].last_updated = added[sid][Len(added[sid])].timestamp)
    /\ [][\A sid \in DOMAIN sessions :
             (/\ returned'.op = "get_context"
              /\ returned'.sid = sid
              /\ now - added[sid][Len(added[sid])].timestamp > expiry_seconds) =>
                (returned'.line = 33 /\ sid \notin DOMAIN sessions')]_vars

\* a session was read a second after its only add_interaction and got its
\* transcript; its last_updated is still the time of the add
C35_Witness ==
    /\ returned.op = "get_context"
    /\ returned.sid = "s1"
    /\ returned.line = 46
    /\ "s1" \in DOMAIN sessions
    /\ now = sessions["s1"].last_updated + 1
    /\ Len(added["s1"]) = 1

\* the requests of a response that did not succeed: the tool returned
\* success = False, raised, or is not registered
FailedCalls(tl, response, outcomes) ==
    { i \in CallPositions(response) :
         \/ response.candidates[1][i].function_call.name \notin ToolNameSet(tl)
         \/ outcomes[i] # "success" }

\* C36: function_calls_made, the list of tool results handed to the
\* synthesis prompt, holds exactly the successful tool invocations, in
\* order: the LLM-requested ones that succeeded, then the manual
\* equation_solver call if it ran and succeeded.  An invocation that
\* returned success = False or raised (an unknown tool name included) is
\* not in the list, while its error line is in the transcript.
C36_OnlySuccessesRecorded ==
    /\ [](AtToolCall =>
            \A response \in ResponsesWithParts :
               \A outcomes \in [CallPositions(response) -> ToolOutcomes], manual \in ToolOutcomes :
                  LET tl == tools[AgentKeyInUse]
                      acc == Transcript(response, outcomes, manual)
                      parts == response.candidates[1]
                      made == SucceededCalls(tl, response, outcomes)
                      solved == IF ManualLines(acc.response_parts) # {}
                                THEN <<"equation_solver">> ELSE <<>>
                  IN  /\ ToolsMade(acc.function_calls_made) = made \o solved
                      /\ \A i \in 1..Len(acc.function_calls_made) :
                            acc.function_calls_made[i].result = ToolResultValue
                      /\ Len(made) + Cardinality(FailedCalls(tl, response, outcomes))
                            = Cardinality(CallPositions(response))
                      /\ \A i \in FailedCalls(tl, response, outcomes) :
                            /\ \/ Contains("[Tool Error]", acc.response_parts[i])
                               \/ Contains("[Tool Execution Error]", acc.response_parts[i])
                            /\ parts[i].function_call.name \notin ToolNameSet(tl) =>
                                  \A j \in 1..Len(acc.function_calls_made) :
                                     acc.function_calls_made[j].tool
                                        # parts[i].function_call.name)
    /\ [](pc = "synthesis" =>
            Len(function_calls_made) =
               Cardinality({ i \in 1..Len(response_parts) :
                                \/ Contains("[Using ", response_parts[i])
                                \/ Contains("[Manual equation solving]", response_parts[i]) }))
    /\ [][(pc = "synthesis" /\ pc' # "synthesis") =>
             LastCall'.prompt.tool_results = function_calls_made]_vars

\* the synthesis call was handed one result although three tool calls were
\* attempted: an unknown tool and a failed calculator call left error lines
\* only, the manual equation_solver call succeeded
C36_Witness ==
    /\ SynthesisCalls # <<>>
    /\ Len(SynthesisCalls[1].prompt.tool_results) = 1
    /\ SynthesisCalls[1].prompt.tool_results[1].tool = "equation_solver"
    /\ Contains("[Tool Execution Error]: Tool 'unit_converter' not found",
                SynthesisCalls[1].prompt.solution_process)
    /\ Contains("[Tool Error]", SynthesisCalls[1].prompt.solution_process)

\* the delegated specialist returned the error response of its outer except
SpecialistFailed ==
    /\ endpoint = "ask"
    /\ specialist_response # NoResponse
    /\ "error" \in DOMAIN specialist_response.metadata

\* C37: when the delegated specialist returns its error response
\* (confidence 0.1, no sources), the coordinator still goes on to the
\* enhancement step and attempts one enhancement LLM call; the final
\* response has confidence 0.1, sources exactly ["AI Tutor Coordinator"]
\* and metadata delegated_to equal to the chosen agent key.
C37_ErrorResponseStillEnhanced ==
    SpecialistFailed =>
       /\ specialist_response.confidence = ErrorConfidence
       /\ specialist_response.sources = <<>>
       /\ pc \in {"enhancing", "done"}
       /\ pc = "enhancing" => ENABLED (\E o \in PlainOutcomes : Enhance(o))
       /\ pc = "done" =>
             /\ Cardinality(CallsOfKind({"enhancement"})) = 1
             /\ LastCall.kind = "enhancement"
             /\ result.kind = "return"
             /\ result.response.confidence = ErrorConfidence
             /\ result.response.sources = <<CoordinatorName>>
             /\ result.response.metadata.delegated_to = routing_decision.agent_key
             /\ routing_decision.agent_key \in AgentKeys

\* both calls of the physics specialist raised, the enhancement call
\* succeeded, and the request returned
C37_Witness ==
    /\ SpecialistFailed
    /\ pc = "done"
    /\ routing_decision.agent_key = "physics"
    /\ Len(llm_calls) = 4
    /\ LastCall.ok
    /\ result.response.content \in LLMTexts

\* C38: Session Store operations never raise under interleaving: when
\* get_context runs concurrently with cleanup_expired_sessions or with
\* another get_context on the same expired session id, interleaved
\* statement by statement, it does not fail on a key the other has
\* already deleted.
C38_NoKeyErrorUnderInterleaving ==
    \A t \in Threads : ~(tpc[t] = "KeyError" /\ targs[t].sid \in SessionIds)

====
